---- MODULE Spec2Model ----
(***************************************************************************)
(* Model of the retrieval subsystem of the AyushBridge documentation       *)
(* chatbot: src/document_processor.py (DocumentProcessor) and its caller   *)
(* src/AyushBridge_Chatbot/chatbot_core.py (AyushBridgeChatbot).           *)
(*                                                                         *)
(* Text is a sequence of one-character strings over the alphabet           *)
(*   "#"  header marker      "\n" newline      " "  blank                  *)
(*   "a", "b"  any other printable character                               *)
(* The alphabet holds no backtick, bracket or emoji, so the substitutions  *)
(* of lines 75, 81, 82 and 113 of document_processor.py find no match on   *)
(* it and are not part of the pipeline modelled here.                      *)
(*                                                                         *)
(* Similarities are on an integer scale: 1 is cosine 1.0, 0 is cosine 0.0, *)
(* -1 is cosine -1.0.                                                      *)
(***************************************************************************)
EXTENDS Integers, Sequences, FiniteSets, TLC

(***************************************************************************)
(* Bounds of the model.                                                    *)
(***************************************************************************)
\* longest document, in lines, of the build-pipeline specification
MaxLines == 4
\* largest top_k a search is called with
MaxTopK == 2
\* process_document calls and search_similar_chunks calls of the concurrent
\* specification
MaxBuilds == 2
MaxSearches == 1

(***************************************************************************)
(* Configuration of the DocumentProcessor (constructor arguments, scaled). *)
(***************************************************************************)
chunk_size == 4
chunk_overlap == 1

NL == "\n"

Max(S) == CHOOSE x \in S : \A y \in S : y <= x
Min(S) == CHOOSE x \in S : \A y \in S : x <= y

(***************************************************************************)
(* Python string primitives.                                               *)
(***************************************************************************)
\* the regular-expression class \s, and the characters str.strip() removes
IsSpace(c) == c \in {" ", NL}

\* str.strip()
Strip(text) ==
    LET keep == {i \in 1..Len(text) : ~IsSpace(text[i])}
    IN  IF keep = {} THEN <<>> ELSE SubSeq(text, Min(keep), Max(keep))

\* the end of the run of whitespace that starts at i (i - 1 when text[i] is none)
RECURSIVE WsRunEnd(_, _)
WsRunEnd(text, i) ==
    IF i <= Len(text) /\ IsSpace(text[i]) THEN WsRunEnd(text, i + 1) ELSE i - 1

\* the end of the run of '#' that starts at i
RECURSIVE HashRunEnd(_, _)
HashRunEnd(text, i) ==
    IF i <= Len(text) /\ text[i] = "#" THEN HashRunEnd(text, i + 1) ELSE i - 1

\* str.split('\n'): the pieces between newlines, k + 1 pieces for k newlines
RECURSIVE SplitLines(_)
SplitLines(text) ==
    LET nls == {i \in 1..Len(text) : text[i] = NL}
    IN  IF nls = {} THEN <<text>>
        ELSE <<SubSeq(text, 1, Min(nls) - 1)>>
             \o SplitLines(SubSeq(text, Min(nls) + 1, Len(text)))

(***************************************************************************)
(* preprocess_markdown                                                     *)
(***************************************************************************)
\* re.sub(r'\n\s*\n\s*\n', '\n\n', text), scanning from position i: a match
\* starts at a newline whose whitespace run holds three newlines or more and
\* ends (both \s* being greedy) at the last newline of that run
RECURSIVE CollapseBlankFrom(_, _)
CollapseBlankFrom(text, i) ==
    IF i > Len(text) THEN <<>>
    ELSE LET e   == WsRunEnd(text, i)
             nls == {k \in i..e : text[k] = NL}
         IN  IF text[i] = NL /\ Cardinality(nls) >= 3
             THEN <<NL, NL>> \o CollapseBlankFrom(text, Max(nls) + 1)
             ELSE <<text[i]>> \o CollapseBlankFrom(text, i + 1)

CollapseBlank(text) == CollapseBlankFrom(text, 1)

\* re.sub(r'^#+\s*', '', text, flags=re.MULTILINE), scanning from position i:
\* at the start of a line a run of '#' and the whitespace after it (newlines
\* included) are removed
RECURSIVE StripHeaderMarkersFrom(_, _)
StripHeaderMarkersFrom(text, i) ==
    IF i > Len(text) THEN <<>>
    ELSE IF (i = 1 \/ text[i - 1] = NL) /\ text[i] = "#"
         THEN StripHeaderMarkersFrom(text, WsRunEnd(text, HashRunEnd(text, i) + 1) + 1)
         ELSE <<text[i]>> \o StripHeaderMarkersFrom(text, i + 1)

StripHeaderMarkers(text) == StripHeaderMarkersFrom(text, 1)

\* markdown constructs that the patterns of lines 75, 81 and 82 match as a
\* whole: a code fence (three backquotes), a badge and a link with an http
\* target
Fence == "<fence>"
Badge == "[![b](u)](v)"
Link == "[t](http://u)"

\* the regular-expression class \w
IsWord(c) == c \in {"a", "b"}

\* the end of the run of word characters that starts at i
RECURSIVE WordRunEnd(_, _)
WordRunEnd(text, i) ==
    IF i <= Len(text) /\ IsWord(text[i]) THEN WordRunEnd(text, i + 1) ELSE i - 1

\* the re.sub of line 75 (pattern: fence, [\w]*, newline, (.*?), newline,
\* fence, with re.DOTALL), scanning from position i: a fence, word characters,
\* a newline, the shortest body, and a newline followed by a fence are
\* replaced by the body between the lines [CODE BLOCK] and [/CODE BLOCK]
RECURSIVE MarkCodeBlocksFrom(_, _)
MarkCodeBlocksFrom(text, i) ==
    IF i > Len(text) THEN <<>>
    ELSE LET p      == WordRunEnd(text, i + 1) + 1
             closes == {q \in (p + 1)..(Len(text) - 1) :
                           text[q] = NL /\ text[q + 1] = Fence}
         IN  IF /\ text[i] = Fence
                /\ p <= Len(text)
                /\ text[p] = NL
                /\ closes # {}
             THEN <<NL, "[CODE BLOCK]", NL>>
                  \o SubSeq(text, p + 1, Min(closes) - 1)
                  \o <<NL, "[/CODE BLOCK]", NL>>
                  \o MarkCodeBlocksFrom(text, Min(closes) + 2)
             ELSE <<text[i]>> \o MarkCodeBlocksFrom(text, i + 1)

MarkCodeBlocks(text) == MarkCodeBlocksFrom(text, 1)

\* re.sub(r'\[!\[.*?\]\(.*?\)\]\(.*?\)', '', text)
RemoveBadges(text) == SelectSeq(text, LAMBDA c : c # Badge)

\* re.sub(r'\[.*?\]\(https?://.*?\)', '', text)
RemoveLinks(text) == SelectSeq(text, LAMBDA c : c # Link)

preprocess_markdown(text) ==
    Strip(RemoveLinks(RemoveBadges(
        StripHeaderMarkers(MarkCodeBlocks(CollapseBlank(text))))))

(***************************************************************************)
(* extract_sections                                                        *)
(***************************************************************************)
\* re.match(r'^(#{1,6})\s*(.*)', line.strip())
IsHeaderLine(line) == LET s == Strip(line) IN s # <<>> /\ s[1] = "#"

\* len(header_match.group(1)): the leading '#', six at most
HeaderLevel(line) == LET s == Strip(line) IN Min({HashRunEnd(s, 1), 6})

\* f'Section Level {level}'
LevelTitle == <<"Section Level 1", "Section Level 2", "Section Level 3",
                "Section Level 4", "Section Level 5", "Section Level 6">>

\* header_match.group(2).strip(), or the default title when that is empty
HeaderTitle(line) ==
    LET s == Strip(line)
        t == Strip(SubSeq(s, HeaderLevel(line) + 1, Len(s)))
    IN  IF t # <<>> THEN t ELSE <<LevelTitle[HeaderLevel(line)]>>

\* a variant of the loop that trims each line before it appends it to the body
RECURSIVE ExtractLoopTrimsLines(_, _, _, _)
ExtractLoopTrimsLines(lines, i, sections, current) ==
    IF i > Len(lines)
    THEN IF Strip(current.content) # <<>> THEN Append(sections, current) ELSE sections
    ELSE IF IsHeaderLine(lines[i])
         THEN ExtractLoopTrimsLines(lines, i + 1,
                  IF Strip(current.content) # <<>> THEN Append(sections, current)
                                                   ELSE sections,
                  [title |-> HeaderTitle(lines[i]), content |-> <<>>,
                   level |-> HeaderLevel(lines[i])])
         ELSE ExtractLoopTrimsLines(lines, i + 1, sections,
                  [current EXCEPT !.content = @ \o Strip(lines[i]) \o <<NL>>])

\* the loop of lines 100-122 over lines[i..], with the sections appended so far
\* and the section being accumulated
RECURSIVE ExtractLoop(_, _, _, _)
ExtractLoop(lines, i, sections, current) ==
    IF i > Len(lines)
    THEN IF Strip(current.content) # <<>> THEN Append(sections, current) ELSE sections
    ELSE IF IsHeaderLine(lines[i])
         THEN ExtractLoop(lines, i + 1,
                  IF Strip(current.content) # <<>> THEN Append(sections, current)
                                                   ELSE sections,
                  [title |-> HeaderTitle(lines[i]), content |-> <<>>,
                   level |-> HeaderLevel(lines[i])])
         ELSE ExtractLoop(lines, i + 1, sections,
                  [current EXCEPT !.content = @ \o lines[i] \o <<NL>>])

\* a variant of extract_sections whose first section is seeded "Untitled", level 0
ExtractSectionsSeedsUntitled(text) ==
    ExtractLoop(SplitLines(text), 1, <<>>,
                [title |-> <<"Untitled">>, content |-> <<>>, level |-> 0])

extract_sections(text) ==
    ExtractLoop(SplitLines(text), 1, <<>>,
                [title |-> <<"Introduction">>, content |-> <<>>, level |-> 1])

(***************************************************************************)
(* create_chunks_with_context                                              *)
(***************************************************************************)
\* self.text_splitter.split_text: the splitter of lines 54-59 is a library; it
\* is modelled by its last separator (""): windows of chunk_size characters
\* that advance by chunk_size - chunk_overlap, each stripped, empty ones dropped
RECURSIVE SplitFrom(_, _)
SplitFrom(text, i) ==
    IF i > Len(text) THEN <<>>
    ELSE LET e == Min({i + chunk_size - 1, Len(text)})
             w == Strip(SubSeq(text, i, e))
             rest == IF e = Len(text) THEN <<>>
                     ELSE SplitFrom(text, i + chunk_size - chunk_overlap)
         IN  IF w = <<>> THEN rest ELSE <<w>> \o rest

split_text(text) == SplitFrom(text, 1)

\* a variant of SectionChunks that numbers the chunks of a section from 1
SectionChunksOneBased(section) ==
    LET section_context == <<"Section: ">> \o section.title \o <<NL, NL>>
        section_content == Strip(section.content)
        text_chunks     == split_text(section_content)
    IN  IF section_content = <<>> THEN <<>>
        ELSE IF Len(section_content) > chunk_size
             THEN [i \in 1..Len(text_chunks) |->
                      [content      |-> section_context \o text_chunks[i],
                       section      |-> section.title,
                       chunk_index  |-> i,
                       total_chunks |-> Len(text_chunks),
                       level        |-> section.level]]
             ELSE << [content      |-> section_context \o section_content,
                      section      |-> section.title,
                      chunk_index  |-> 0,
                      total_chunks |-> 1,
                      level        |-> section.level] >>

\* a variant of SectionChunks that keeps a short body as it is, untrimmed
SectionChunksKeepsWhitespace(section) ==
    LET section_context == <<"Section: ">> \o section.title \o <<NL, NL>>
        section_content == Strip(section.content)
        text_chunks     == split_text(section_content)
    IN  IF section_content = <<>> THEN <<>>
        ELSE IF Len(section_content) > chunk_size
             THEN [i \in 1..Len(text_chunks) |->
                      [content      |-> section_context \o text_chunks[i],
                       section      |-> section.title,
                       chunk_index  |-> i - 1,
                       total_chunks |-> Len(text_chunks),
                       level        |-> section.level]]
             ELSE << [content      |-> section_context \o section.content,
                      section      |-> section.title,
                      chunk_index  |-> 0,
                      total_chunks |-> 1,
                      level        |-> section.level] >>

\* the chunks one section contributes (lines 144-171)
SectionChunks(section) ==
    LET section_context == <<"Section: ">> \o section.title \o <<NL, NL>>
        section_content == Strip(section.content)
        text_chunks     == split_text(section_content)
    IN  IF section_content = <<>> THEN <<>>
        ELSE IF Len(section_content) > chunk_size
             THEN [i \in 1..Len(text_chunks) |->
                      [content      |-> section_context \o text_chunks[i],
                       section      |-> section.title,
                       chunk_index  |-> i - 1,
                       total_chunks |-> Len(text_chunks),
                       level        |-> section.level]]
             ELSE << [content      |-> section_context \o section_content,
                      section      |-> section.title,
                      chunk_index  |-> 0,
                      total_chunks |-> 1,
                      level        |-> section.level] >>

RECURSIVE ChunksFrom(_, _)
ChunksFrom(sections, i) ==
    IF i > Len(sections) THEN <<>>
    ELSE SectionChunks(sections[i]) \o ChunksFrom(sections, i + 1)

create_chunks_with_context(sections) == ChunksFrom(sections, 1)

(***************************************************************************)
(* Embedding model and vector index (libraries, modelled by their          *)
(* contract).                                                              *)
(***************************************************************************)
\* the embedding model maps a text to a unit vector; the model has NumDirs
\* unit vectors in the plane, a quarter turn apart
NumDirs == 4

\* the embedding models a DocumentProcessor can be constructed with: the
\* default of line 22 and another one
DefaultModel == "sentence-transformers/all-MiniLM-L6-v2"
EmbeddingModels == {DefaultModel, "another-model"}

\* encode of the model of that name, followed by faiss.normalize_L2: another
\* model maps the same text to another direction
EmbedWith(embedding_model_name, text) ==
    (Len(text) + (IF embedding_model_name = DefaultModel THEN 0 ELSE 1)) % NumDirs

\* self.embedding_model.encode of the default model, followed by
\* faiss.normalize_L2
Embed(text) == EmbedWith(DefaultModel, text)

\* inner product of two unit vectors: the cosine of the angle between them
InnerProduct(u, v) ==
    CASE (u - v) % NumDirs = 0 -> 1
      [] (u - v) % NumDirs = 2 -> -1
      [] OTHER -> 0

\* the similarity IndexFlatIP.search reports where it has fewer than k vectors
\* (the lowest float, about -3.4e38), with the label -1
FltLowest == -9

\* self.vector_store is None, or an index holding a sequence of vectors
NoIndex == [none |-> TRUE, vectors |-> <<>>]
Index(vs) == [none |-> FALSE, vectors |-> vs]
ntotal(index) == Len(index.vectors)

\* IndexFlatIP.search(query_embedding, k): k pairs (similarity, label), the
\* stored vectors by descending similarity, then the padding. The library
\* documents no order among equal similarities: asc says whether the build's
\* faiss puts the lower position first.
FaissSearch(index, qv, k, asc) ==
    LET n == ntotal(index)
        sim(p) == InnerProduct(qv, index.vectors[p])
        before(p, r) == \/ sim(p) > sim(r)
                        \/ sim(p) = sim(r) /\ (IF asc THEN p < r ELSE p > r)
        rank(p) == Cardinality({r \in 1..n : before(r, p)}) + 1
        at(i) == CHOOSE p \in 1..n : rank(p) = i
    IN  [i \in 1..k |-> IF i <= n THEN [sim |-> sim(at(i)), idx |-> at(i) - 1]
                                  ELSE [sim |-> FltLowest, idx |-> -1]]

\* a Python list subscript list[idx]: a negative idx counts from the end
PyIndexOk(list, idx) == -Len(list) <= idx /\ idx < Len(list)
PyIndex(list, idx) == IF idx >= 0 THEN list[idx + 1] ELSE list[Len(list) + idx + 1]

(***************************************************************************)
(* DocumentProcessor: memory, disk and the three operations.               *)
(***************************************************************************)
\* the fields of a DocumentProcessor after __init__ (lines 43-45)
NewProcessor ==
    [vector_store |-> NoIndex, document_chunks |-> <<>>, chunk_metadata |-> <<>>,
     embedding_model_name |-> DefaultModel]

\* a file of the vector database directory
Absent == [exists |-> FALSE, data |-> <<>>]
File(d) == [exists |-> TRUE, data |-> d]
NoConfig == [exists |-> FALSE, embedding_model |-> "", chunk_size |-> 0,
             chunk_overlap |-> 0, total_chunks |-> 0]
EmptyDisk == [index |-> Absent, chunks |-> Absent, metadata |-> Absent,
              config |-> NoConfig]

\* the places where the environment can make a call raise
SaveFailPoints == {"makedirs", "write_index", "write_chunks", "write_metadata",
                   "write_config"}
ProcessFailPoints == {"none", "open", "encode"} \cup SaveFailPoints
LoadFailPoints == {"none", "read_index", "read_chunks", "read_metadata"}
SearchFailPoints == {"none", "encode"}

\* save_vector_database: four writes in sequence; a write that raises leaves
\* the files written before it in place (faiss.write_index raises on None)
save_vector_database(mem, dsk, fail) ==
    LET d1 == [dsk EXCEPT !.index = File(mem.vector_store.vectors)]
        d2 == [d1 EXCEPT !.chunks = File(mem.document_chunks)]
        d3 == [d2 EXCEPT !.metadata = File(mem.chunk_metadata)]
        d4 == [d3 EXCEPT !.config =
                  [exists |-> TRUE,
                   embedding_model |-> mem.embedding_model_name,
                   chunk_size |-> chunk_size,
                   chunk_overlap |-> chunk_overlap,
                   total_chunks |-> Len(mem.document_chunks)]]
    IN  CASE fail \in {"makedirs", "write_index"} \/ mem.vector_store.none ->
                 [disk |-> dsk, raised |-> TRUE]
          [] fail = "write_chunks"   -> [disk |-> d1, raised |-> TRUE]
          [] fail = "write_metadata" -> [disk |-> d2, raised |-> TRUE]
          [] fail = "write_config"   -> [disk |-> d3, raised |-> TRUE]
          [] OTHER                   -> [disk |-> d4, raised |-> FALSE]

RECURSIVE JoinLines(_)
JoinLines(ls) ==
    IF ls = <<>> THEN <<>>
    ELSE IF Len(ls) = 1 THEN ls[1]
    ELSE ls[1] \o <<NL>> \o JoinLines(Tail(ls))

\* the documents process_document is called on: the empty document; a header
\* and a body (one chunk); two indented headers with bodies (two chunks)
SampleDocs ==
    { <<>>,
      JoinLines(<< <<"#", " ", "a">>, <<"b">> >>),
      JoinLines(<< <<" ", "#", "a">>, <<"b">>, <<" ", "#", "b">>, <<"a", " ", "a">> >>) }

\* lines 229-238: normalize, extract sections, chunk
BuildChunks(raw_text) ==
    create_chunks_with_context(extract_sections(preprocess_markdown(raw_text)))

\* BuildChunks of the sample documents, computed once
SampleChunks == [d \in SampleDocs |-> BuildChunks(d)]

\* BuildChunks, memoised on the sample documents
ChunksOf(raw_text) ==
    IF raw_text \in SampleDocs THEN SampleChunks[raw_text] ELSE BuildChunks(raw_text)

\* [chunk['content'] for chunk in chunks]
Contents(chunks) == [i \in 1..Len(chunks) |-> chunks[i].content]

\* generate_embeddings then create_vector_store
EmbedAll(texts) == [i \in 1..Len(texts) |-> Embed(texts[i])]

\* the same with the model of that name
EmbedAllWith(embedding_model_name, texts) ==
    [i \in 1..Len(texts) |-> EmbedWith(embedding_model_name, texts[i])]

\* a variant of process_document that clears the processor before it opens
\* the file
ProcessDocumentResetsFirst(mem, dsk, raw_text, fail) ==
    LET chunks == ChunksOf(raw_text)
        m1 == [mem EXCEPT !.document_chunks = Contents(chunks),
                          !.chunk_metadata = chunks]
        m2 == [m1 EXCEPT !.vector_store = Index(EmbedAllWith(mem.embedding_model_name, m1.document_chunks))]
        sv == save_vector_database(m2, dsk, fail)
    IN  CASE fail = "open" -> [mem |-> NewProcessor, disk |-> dsk, ret |-> FALSE]
          [] fail = "encode" \/ chunks = <<>> ->
                 [mem |-> m1, disk |-> dsk, ret |-> FALSE]
          [] OTHER -> [mem |-> m2, disk |-> sv.disk, ret |-> ~sv.raised]

\* process_document: every exception is caught and turned into False
process_document(mem, dsk, raw_text, fail) ==
    LET chunks == ChunksOf(raw_text)
        m1 == [mem EXCEPT !.document_chunks = Contents(chunks),
                          !.chunk_metadata = chunks]
        m2 == [m1 EXCEPT !.vector_store = Index(EmbedAllWith(mem.embedding_model_name, m1.document_chunks))]
        sv == save_vector_database(m2, dsk, fail)
    IN  CASE fail = "open" -> [mem |-> mem, disk |-> dsk, ret |-> FALSE]
          \* encode raises, or embeddings.shape[1] raises on no embedding at all
          [] fail = "encode" \/ chunks = <<>> ->
                 [mem |-> m1, disk |-> dsk, ret |-> FALSE]
          [] OTHER -> [mem |-> m2, disk |-> sv.disk, ret |-> ~sv.raised]

\* list[::-1]
Reverse(list) == [i \in 1..Len(list) |-> list[Len(list) + 1 - i]]

\* a variant of load_vector_database that reads the chunk list back to front
LoadReversed(mem, dsk, fail) ==
    LET m1 == [mem EXCEPT !.vector_store = Index(dsk.index.data)]
        m2 == [m1 EXCEPT !.document_chunks = Reverse(dsk.chunks.data)]
        m3 == [m2 EXCEPT !.chunk_metadata = dsk.metadata.data]
    IN  CASE ~dsk.index.exists \/ fail = "read_index" -> [mem |-> mem, ret |-> FALSE, warnings |-> {}]
          [] ~dsk.chunks.exists \/ fail = "read_chunks" -> [mem |-> m1, ret |-> FALSE, warnings |-> {}]
          [] ~dsk.metadata.exists \/ fail = "read_metadata" -> [mem |-> m2, ret |-> FALSE, warnings |-> {}]
          [] OTHER -> [mem |-> m3, ret |-> TRUE, warnings |-> {}]

\* load_vector_database: three reads in sequence, each assigned as it is read.
\* config.pkl is not read; warnings is the set of warnings the call logs (it
\* logs at the levels info and error only)
load_vector_database(mem, dsk, fail) ==
    LET m1 == [mem EXCEPT !.vector_store = Index(dsk.index.data)]
        m2 == [m1 EXCEPT !.document_chunks = dsk.chunks.data]
        m3 == [m2 EXCEPT !.chunk_metadata = dsk.metadata.data]
    IN  CASE ~dsk.index.exists \/ fail = "read_index" -> [mem |-> mem, ret |-> FALSE, warnings |-> {}]
          [] ~dsk.chunks.exists \/ fail = "read_chunks" -> [mem |-> m1, ret |-> FALSE, warnings |-> {}]
          [] ~dsk.metadata.exists \/ fail = "read_metadata" -> [mem |-> m2, ret |-> FALSE, warnings |-> {}]
          [] OTHER -> [mem |-> m3, ret |-> TRUE, warnings |-> {}]

\* a variant of line 347 that treats the similarity as a distance (keeps the far ones)
PassesDistance(similarity, similarity_threshold) == similarity <= similarity_threshold

\* line 347
Passes(similarity, similarity_threshold) == similarity >= similarity_threshold

\* the loop of lines 346-350 over pairs[i..]: the results, or "raise" where a
\* subscript is out of range. A result carries idx, the label it was read at.
RECURSIVE SearchLoop(_, _, _, _, _)
SearchLoop(mem, pairs, i, similarity_threshold, results) ==
    IF i > Len(pairs) THEN [raised |-> FALSE, results |-> results]
    ELSE IF ~Passes(pairs[i].sim, similarity_threshold)
         THEN SearchLoop(mem, pairs, i + 1, similarity_threshold, results)
         ELSE IF ~PyIndexOk(mem.document_chunks, pairs[i].idx)
                 \/ ~PyIndexOk(mem.chunk_metadata, pairs[i].idx)
              THEN [raised |-> TRUE, results |-> <<>>]
              ELSE SearchLoop(mem, pairs, i + 1, similarity_threshold,
                       Append(results,
                           [content  |-> PyIndex(mem.document_chunks, pairs[i].idx),
                            score    |-> pairs[i].sim,
                            metadata |-> PyIndex(mem.chunk_metadata, pairs[i].idx),
                            idx      |-> pairs[i].idx]))

\* a variant of search_similar_chunks that falls back to the best candidate when none passes
SearchWithTop1Fallback(mem, query, top_k, similarity_threshold, asc, fail) ==
    LET pairs == FaissSearch(mem.vector_store,
                        EmbedWith(mem.embedding_model_name, query), top_k, asc)
        r == SearchLoop(mem, pairs, 1, similarity_threshold, <<>>)
    IN  IF mem.vector_store.none THEN [raised |-> FALSE, results |-> <<>>]
        ELSE IF fail = "encode" THEN [raised |-> TRUE, results |-> <<>>]
        ELSE IF ~r.raised /\ r.results = <<>>
             THEN SearchLoop(mem, SubSeq(pairs, 1, 1), 1, FltLowest, <<>>)
             ELSE r

\* a variant of search_similar_chunks that embeds the query before it looks at
\* self.vector_store
SearchEncodeFirst(mem, query, top_k, similarity_threshold, asc, fail) ==
    IF fail = "encode" THEN [raised |-> TRUE, results |-> <<>>]
    ELSE IF mem.vector_store.none THEN [raised |-> FALSE, results |-> <<>>]
    ELSE SearchLoop(mem, FaissSearch(mem.vector_store,
                        EmbedWith(mem.embedding_model_name, query), top_k, asc),
                    1, similarity_threshold, <<>>)

\* a variant of search_similar_chunks that goes on with a zero query vector
\* when the embedding model fails: every stored chunk then scores 0
SearchIgnoringEncodeFailure(mem, query, top_k, similarity_threshold, asc, fail) ==
    IF mem.vector_store.none THEN [raised |-> FALSE, results |-> <<>>]
    ELSE IF fail = "encode"
         THEN [raised |-> FALSE,
               results |-> [i \in 1..Len(mem.document_chunks) |->
                               [content |-> mem.document_chunks[i], score |-> 0,
                                metadata |-> mem.chunk_metadata[i], idx |-> i - 1]]]
    ELSE SearchLoop(mem, FaissSearch(mem.vector_store,
                        EmbedWith(mem.embedding_model_name, query), top_k, asc),
                    1, similarity_threshold, <<>>)

\* search_similar_chunks
search_similar_chunks(mem, query, top_k, similarity_threshold, asc, fail) ==
    IF mem.vector_store.none THEN [raised |-> FALSE, results |-> <<>>]
    ELSE IF fail = "encode" THEN [raised |-> TRUE, results |-> <<>>]
    ELSE SearchLoop(mem, FaissSearch(mem.vector_store,
                        EmbedWith(mem.embedding_model_name, query), top_k, asc),
                    1, similarity_threshold, <<>>)

\* AyushBridgeChatbot.retrieve_relevant_chunks: an exception becomes []
retrieve_relevant_chunks(mem, query, top_k, similarity_threshold, asc, fail) ==
    LET r == search_similar_chunks(mem, query, top_k, similarity_threshold, asc, fail)
    IN  IF mem.vector_store.none \/ r.raised THEN <<>> ELSE r.results

(***************************************************************************)
(* Inputs.                                                                 *)
(***************************************************************************)
\* the query of n characters
QueryOf(n) == [i \in 1..n |-> "a"]
\* the queries of the calls: the empty query and a query of one character,
\* which the embedding model maps to two different directions
Queries == {QueryOf(0), QueryOf(1)}

TopKs == 1..MaxTopK

\* similarity_threshold: the lowest float, and the scale from -1.0 to 1.0
Thresholds == {FltLowest} \cup (-1..1)

(***************************************************************************)
(* State.                                                                  *)
(***************************************************************************)
VARIABLES
    processor,       \* the DocumentProcessor: vector_store, document_chunks, chunk_metadata
    disk,            \* the files under vector_db_path
    faiss_asc,       \* the tie order of the faiss build in use (fixed)
    last,            \* the most recent call: operation, arguments, what it returned
    build,           \* the build pipeline run stage by stage
    conc,            \* the two threads of the concurrent specification
    bot,             \* the AyushBridgeChatbot that owns the DocumentProcessor
    simple,          \* simple_app.py and its SimpleAyushBridgeChatbot
    bulk,            \* bulk_codes_async.py: the tasks of main_async, a fetch_json call
    icd              \* fetch_icd11_tm2_api.py: the traversal of collect_entities

\* the DocumentProcessor and its chatbot; the stand-alone scripts
core == <<processor, disk, faiss_asc, last, build, conc, bot>>
others == <<simple, bulk, icd>>
vars == <<processor, disk, faiss_asc, last, build, conc, bot, simple, bulk, icd>>

\* a script that is not running
NotRunning == [on |-> FALSE]
OthersIdle == simple = NotRunning /\ bulk = NotRunning /\ icd = NotRunning

\* fail is the place where the environment made the call raise ("none": nowhere,
\* also when the call returned before it got there)
NoCall == [op |-> "none", ret |-> "None", fail |-> "none", warnings |-> {},
           results |-> <<>>,
           query |-> <<>>, top_k |-> 0, similarity_threshold |-> 0]

Call(op, ret, fail) == [NoCall EXCEPT !.op = op, !.ret = ret, !.fail = fail]

SearchCall(op, ret, fail, results, query, top_k, similarity_threshold) ==
    [op |-> op, ret |-> ret, fail |-> fail, warnings |-> {}, results |-> results,
     query |-> query, top_k |-> top_k, similarity_threshold |-> similarity_threshold]

BuildIdle == [stage |-> "idle", doc |-> <<>>, text |-> <<>>,
              sections |-> <<>>, chunks |-> <<>>]

\* the thread running process_document: where it is, its local chunks and
\* embeddings, and (for the claims) the triple it started from
PdIdle == [pc |-> "idle", chunks |-> <<>>, embeddings |-> <<>>, old |-> NewProcessor]

\* the thread running search_similar_chunks: where it is, its arguments and
\* locals, and (for the claims) the complete triples that were live while it
\* ran and whether a process_document ran beside it
SrIdle == [pc |-> "idle", query |-> <<>>, top_k |-> 0, similarity_threshold |-> 0,
           pairs |-> <<>>, i |-> 0, results |-> <<>>, content |-> <<>>,
           seen |-> {}, during |-> FALSE]

ConcIdle == [on |-> FALSE, pd |-> PdIdle, sr |-> SrIdle, builds |-> 0, searches |-> 0]

Bool(b) == IF b THEN "True" ELSE "False"

\* what the last chat call returned: the kind of answer, the chunks_retrieved
\* field, and (for the claims) how often it called the completion provider and
\* how many messages of history it sent
\* history_dropped: the messages that the slice of line 198 dropped
NoReply == [answer |-> "none", chunks_retrieved |-> 0, provider_calls |-> 0,
            history_sent |-> 0, history_dropped |-> 0]

\* no AyushBridgeChatbot constructed yet
NoBot == [constructed |-> FALSE, is_initialized |-> FALSE,
          top_k_retrieval |-> 0, similarity_threshold |-> 0,
          conversation_history |-> <<>>, reply |-> NoReply]

(***************************************************************************)
(* The operations, one call at a time.                                     *)
(***************************************************************************)
Init ==
    /\ OthersIdle
    /\ processor = NewProcessor
    /\ disk = EmptyDisk
    /\ faiss_asc \in BOOLEAN
    /\ last = NoCall
    /\ build = BuildIdle
    /\ conc = ConcIdle
    /\ bot = NoBot

\* DocumentProcessor(...) in a new process, over the same vector_db_path
Construct ==
    /\ processor' = NewProcessor
    /\ last' = Call("construct", "None", "none")
    /\ UNCHANGED <<disk, faiss_asc, build, conc, bot, others>>

ProcessDocument ==
    \E doc \in SampleDocs, fail \in ProcessFailPoints :
        LET r == process_document(processor, disk, doc, fail)
            reached == fail \in SaveFailPoints => ChunksOf(doc) # <<>>
        IN  /\ processor' = r.mem
            /\ disk' = r.disk
            /\ last' = Call("process_document", Bool(r.ret),
                            IF reached THEN fail ELSE "none")
            /\ UNCHANGED <<faiss_asc, build, conc, bot, others>>

LoadVectorDatabase ==
    \E fail \in LoadFailPoints :
        LET r == load_vector_database(processor, disk, fail)
            reached == /\ disk.index.exists
                       /\ fail = "read_metadata" => disk.chunks.exists
        IN  /\ processor' = r.mem
            /\ last' = [Call("load_vector_database", Bool(r.ret),
                             IF reached THEN fail ELSE "none")
                           EXCEPT !.warnings = r.warnings]
            /\ UNCHANGED <<disk, faiss_asc, build, conc, bot, others>>

\* a variant of the search call that removes the chunks it returns from
\* document_chunks
SearchConsumesResults ==
    \E q \in Queries, k \in TopKs, t \in Thresholds, fail \in SearchFailPoints :
        LET r == search_similar_chunks(processor, q, k, t, faiss_asc, fail)
        IN  /\ last' = SearchCall("search_similar_chunks",
                                  IF r.raised THEN "raise" ELSE "list",
                                  IF processor.vector_store.none THEN "none" ELSE fail,
                                  r.results, q, k, t)
            /\ processor' = [processor EXCEPT !.document_chunks =
                                SubSeq(@, 1, Len(@) - Len(r.results))]
            /\ UNCHANGED <<disk, faiss_asc, build, conc, bot, others>>

SearchSimilarChunks ==
    \E q \in Queries, k \in TopKs, t \in Thresholds, fail \in SearchFailPoints :
        LET r == search_similar_chunks(processor, q, k, t, faiss_asc, fail)
        IN  /\ last' = SearchCall("search_similar_chunks",
                                  IF r.raised THEN "raise" ELSE "list",
                                  IF processor.vector_store.none THEN "none" ELSE fail,
                                  r.results, q, k, t)
            /\ UNCHANGED <<processor, disk, faiss_asc, build, conc, bot, others>>

Next ==
    \/ Construct
    \/ ProcessDocument
    \/ LoadVectorDatabase
    \/ SearchSimilarChunks

Spec == Init /\ [][Next]_vars

(***************************************************************************)
(* Claims about the operations, under Spec.  Every state of Spec is a      *)
(* state between two calls, and last describes the call that led to it.    *)
(***************************************************************************)
\* the three in-memory structures have the same length
Aligned(mem) ==
    /\ Len(mem.document_chunks) = Len(mem.chunk_metadata)
    /\ Len(mem.document_chunks) = ntotal(mem.vector_store)

\* the retriever state Ready: an index is held and the triple is aligned
Ready(mem) == ~mem.vector_store.none /\ Aligned(mem)

IsPrefix(s, t) == Len(s) <= Len(t) /\ SubSeq(t, 1, Len(s)) = s

\* C1: whenever the DocumentProcessor holds a vector index, document_chunks,
\* chunk_metadata and the index have the same length, after any sequence of
\* process_document, load_vector_database and search_similar_chunks calls,
\* failed calls included.
C1_IndexAligned == ~processor.vector_store.none => Aligned(processor)

\* C2: load_vector_database returns True only if the chunk list, the metadata
\* list and the index it loaded have the same length.
C2_LoadSucceedsOnlyAligned ==
    (last.op = "load_vector_database" /\ last.ret = "True") => Aligned(processor)

\* C3: after a load_vector_database that returned False no index is held, and
\* every search_similar_chunks and retrieve_relevant_chunks call returns [].
C3_FailedLoadLeavesUnloaded ==
    (last.op = "load_vector_database" /\ last.ret = "False") =>
        /\ processor.vector_store.none
        /\ \A q \in Queries, k \in TopKs, t \in Thresholds :
              /\ search_similar_chunks(processor, q, k, t, faiss_asc, "none")
                     = [raised |-> FALSE, results |-> <<>>]
              /\ retrieve_relevant_chunks(processor, q, k, t, faiss_asc, "none") = <<>>

\* what the index answered to the last search
LastPairs == FaissSearch(processor.vector_store, Embed(last.query), last.top_k, faiss_asc)

\* C4: every result search_similar_chunks returns has score >= the threshold,
\* and when no candidate of the index reaches the threshold the result is [].
C4_ThresholdFilter ==
    (last.op = "search_similar_chunks" /\ last.ret = "list") =>
        /\ \A i \in 1..Len(last.results) :
              last.results[i].score >= last.similarity_threshold
        /\ (/\ ~processor.vector_store.none
            /\ \A i \in 1..Len(LastPairs) : LastPairs[i].sim < last.similarity_threshold)
           => last.results = <<>>

\* C4 witness: a search on a loaded index returned results and dropped a
\* candidate that was below the threshold.
C4_Witness ==
    /\ last.op = "search_similar_chunks" /\ last.ret = "list"
    /\ Ready(processor)
    /\ last.results # <<>>
    /\ Len(last.results) < Min({last.top_k, ntotal(processor.vector_store)})

\* C5: on a Ready index, for the query and top_k of the last search, the
\* results at a higher threshold are a prefix of the results at a lower one.
C5_MonotoneInThreshold ==
    (last.op = "search_similar_chunks" /\ last.ret = "list" /\ Ready(processor)) =>
        \A t2 \in Thresholds :
            LET r2 == retrieve_relevant_chunks(processor, last.query, last.top_k, t2,
                                               faiss_asc, "none")
            IN  /\ t2 >= last.similarity_threshold => IsPrefix(r2, last.results)
                /\ t2 <= last.similarity_threshold => IsPrefix(last.results, r2)

\* C5 witness: a search on a Ready index whose results strictly shrink, without
\* becoming empty, at some higher threshold.
C5_Witness ==
    /\ last.op = "search_similar_chunks" /\ last.ret = "list" /\ Ready(processor)
    /\ \E t2 \in Thresholds :
          LET r2 == retrieve_relevant_chunks(processor, last.query, last.top_k, t2,
                                             faiss_asc, "none")
          IN  t2 > last.similarity_threshold /\ r2 # <<>> /\ Len(r2) < Len(last.results)

\* C6: search_similar_chunks returns at most top_k results and at most
\* index.ntotal results, each read at a stored position in [0, ntotal), also
\* when top_k exceeds the number of stored vectors, for any threshold.
C6_ResultsWithinIndex ==
    (last.op = "search_similar_chunks" /\ last.ret = "list") =>
        /\ Len(last.results) <= last.top_k
        /\ Len(last.results) <= ntotal(processor.vector_store)
        /\ \A i \in 1..Len(last.results) :
              last.results[i].idx \in 0..(ntotal(processor.vector_store) - 1)

\* C7: results are in descending order of score, and results of equal score
\* are in ascending order of their position in the index.
C7_OrderedWithTies ==
    (last.op = "search_similar_chunks" /\ last.ret = "list") =>
        \A i, j \in 1..Len(last.results) :
            i < j => \/ last.results[i].score > last.results[j].score
                     \/ /\ last.results[i].score = last.results[j].score
                        /\ last.results[i].idx < last.results[j].idx

\* the persisted triple is the triple of one build: the index holds the
\* embeddings of the chunk list, which holds the contents of the metadata list
DiskTripleOfOneBuild ==
    /\ disk.chunks.data = Contents(disk.metadata.data)
    /\ disk.index.data = EmbedAll(disk.chunks.data)

\* C9: whenever all three artifacts are on disk (so that a load accepts them),
\* they are the complete triple of one build, also after a save that failed
\* between two writes.
C9_PersistAllOrNothing ==
    (disk.index.exists /\ disk.chunks.exists /\ disk.metadata.exists)
        => DiskTripleOfOneBuild

\* C11: while no index is held (never built or loaded), search_similar_chunks
\* and retrieve_relevant_chunks return [] for every query, top_k and threshold
\* and raise nothing, whatever the embedding model would do.
C11_UnloadedReturnsEmpty ==
    processor.vector_store.none =>
        /\ last.op = "search_similar_chunks" => (last.ret = "list" /\ last.results = <<>>)
        /\ \A q \in Queries, k \in TopKs, t \in Thresholds, fail \in SearchFailPoints :
              /\ search_similar_chunks(processor, q, k, t, faiss_asc, fail)
                     = [raised |-> FALSE, results |-> <<>>]
              /\ retrieve_relevant_chunks(processor, q, k, t, faiss_asc, fail) = <<>>

\* C11 witness: a search was served without an index, on a processor whose
\* chunk lists a failed build had already filled.
C11_Witness ==
    /\ last.op = "search_similar_chunks"
    /\ processor.vector_store.none
    /\ processor.document_chunks # <<>>

\* C13: a process_document that met no failure of its environment on a
\* document without content (0 sections, 0 chunks) returns True and leaves an
\* index of size 0, on which every search returns [] and raises nothing.
C13_EmptyDocumentBuilds ==
    (last.op = "process_document" /\ last.fail = "none"
     /\ processor.chunk_metadata = <<>>) =>
        /\ last.ret = "True"
        /\ ~processor.vector_store.none
        /\ ntotal(processor.vector_store) = 0
        /\ \A q \in Queries, k \in TopKs, t \in Thresholds :
              search_similar_chunks(processor, q, k, t, faiss_asc, "none")
                  = [raised |-> FALSE, results |-> <<>>]

\* C14: a process_document whose source file cannot be opened or read returns
\* False, writes no file of the vector database, and leaves the index, the
\* chunk list and the metadata list as they were before the call.
C14_MissingFileChangesNothing ==
    [][(last'.op = "process_document" /\ last'.fail = "open") =>
           /\ last'.ret = "False"
           /\ processor' = processor
           /\ disk' = disk]_vars

\* C14 witness: the open failed on a Ready processor with a vector database
\* on disk.
C14_Witness ==
    /\ last.op = "process_document" /\ last.fail = "open"
    /\ Ready(processor)
    /\ disk.index.exists /\ disk.chunks.exists /\ disk.metadata.exists

LineSet == { <<>>, <<"a">>, <<"#">>, <<"#", " ", "b">>, <<" ", "#", "a">>,
             <<"a", "b", " ", "a", "b">> }

BuildDocs == {JoinLines(ls) : ls \in UNION {[1..n -> LineSet] : n \in 0..MaxLines}}

InitBuild ==
    /\ OthersIdle
    /\ processor = NewProcessor
    /\ disk = EmptyDisk
    /\ faiss_asc = TRUE
    /\ last = NoCall
    /\ conc = ConcIdle
    /\ \E d \in BuildDocs :
          build = [stage |-> "read", doc |-> d, text |-> d,
                   sections |-> <<>>, chunks |-> <<>>]
    /\ bot = NoBot

\* line 229
BuildPreprocess ==
    /\ build.stage = "read"
    /\ build' = [build EXCEPT !.stage = "preprocessed",
                              !.text = preprocess_markdown(build.doc)]
    /\ UNCHANGED <<processor, disk, faiss_asc, last, conc, bot, others>>

\* line 233
BuildExtract ==
    /\ build.stage = "preprocessed"
    /\ build' = [build EXCEPT !.stage = "sectioned",
                              !.sections = extract_sections(build.text)]
    /\ UNCHANGED <<processor, disk, faiss_asc, last, conc, bot, others>>

\* line 238
BuildChunk ==
    /\ build.stage = "sectioned"
    /\ build' = [build EXCEPT !.stage = "chunked",
                              !.chunks = create_chunks_with_context(build.sections)]
    /\ UNCHANGED <<processor, disk, faiss_asc, last, conc, bot, others>>

NextBuild == BuildPreprocess \/ BuildExtract \/ BuildChunk

SpecBuild == InitBuild /\ [][NextBuild]_vars

\* a markdown header line: '#' in the first column
IsMarkdownHeader(line) == line # <<>> /\ line[1] = "#"

\* a line of body text: not blank, no header (indented or not)
IsBodyLine(line) == Strip(line) # <<>> /\ ~IsHeaderLine(line)

\* the document starts with a header line, and every header line is followed,
\* before the next header line, by a line of body text
HeadersWithBodies(doc) ==
    LET lines == SplitLines(doc)
        hs    == {i \in 1..Len(lines) : IsHeaderLine(lines[i])}
        next(i) == Min({j \in hs \cup {Len(lines) + 1} : j > i})
    IN  /\ 1 \in hs
        /\ \A i \in hs : IsMarkdownHeader(lines[i])
        /\ \A i \in hs : \E j \in (i + 1)..(next(i) - 1) : IsBodyLine(lines[j])

NumHeaders(doc) ==
    LET lines == SplitLines(doc)
    IN  Cardinality({i \in 1..Len(lines) : IsHeaderLine(lines[i])})

\* C8: run through the build pipeline, a document of k header lines, each
\* followed by body text, yields k sections and at least k chunks; with two
\* headers or more it never collapses into one section.
C8_EveryHeaderStartsSection ==
    (build.stage = "chunked" /\ HeadersWithBodies(build.doc)) =>
        /\ Len(build.sections) = NumHeaders(build.doc)
        /\ Len(build.chunks) >= NumHeaders(build.doc)

(***************************************************************************)
(* process_document and search_similar_chunks on two threads of one        *)
(* process (run_chatbot.py serves requests with threaded=True), statement  *)
(* by statement.  The pc of a thread is the source line it executes next.  *)
(***************************************************************************)
InitConc ==
    /\ OthersIdle
    /\ processor = NewProcessor
    /\ disk = EmptyDisk
    /\ faiss_asc \in BOOLEAN
    /\ last = NoCall
    /\ build = BuildIdle
    /\ conc = [ConcIdle EXCEPT !.on = TRUE]
    /\ bot = NoBot

\* process_document returns: last now describes it, and what the search that
\* returned before it had seen is dropped
PdReturn(ret, fail) ==
    /\ conc' = [conc EXCEPT !.pd = PdIdle, !.builds = @ + 1,
                    !.sr = IF conc.sr.pc = "idle" THEN SrIdle ELSE @]
    /\ last' = Call("process_document", ret, fail)

\* lines 221-239: read the file, compute the chunks
PdStart ==
    /\ conc.pd.pc = "idle"
    /\ conc.builds < MaxBuilds
    /\ \E doc \in SampleDocs, fail \in {"none", "open"} :
          IF fail = "open"
          THEN PdReturn("False", fail)
          ELSE /\ conc' = [conc EXCEPT
                      !.pd = [pc |-> "242", chunks |-> ChunksOf(doc),
                              embeddings |-> <<>>, old |-> processor],
                      !.sr.during = @ \/ conc.sr.pc # "idle"]
               /\ UNCHANGED last
    /\ UNCHANGED <<processor, disk, faiss_asc, build, bot, others>>

\* line 242
Pd242 ==
    /\ conc.pd.pc = "242"
    /\ processor' = [processor EXCEPT !.document_chunks = Contents(conc.pd.chunks)]
    /\ conc' = [conc EXCEPT !.pd.pc = "243"]
    /\ UNCHANGED <<disk, faiss_asc, last, build, bot, others>>

\* line 243
Pd243 ==
    /\ conc.pd.pc = "243"
    /\ processor' = [processor EXCEPT !.chunk_metadata = conc.pd.chunks]
    /\ conc' = [conc EXCEPT !.pd.pc = "246"]
    /\ UNCHANGED <<disk, faiss_asc, last, build, bot, others>>

\* line 246
Pd246 ==
    /\ conc.pd.pc = "246"
    /\ \E fail \in {"none", "encode"} :
          IF fail = "encode"
          THEN PdReturn("False", fail)
          ELSE /\ conc' = [conc EXCEPT !.pd.pc = "249",
                               !.pd.embeddings = EmbedAllWith(processor.embedding_model_name,
                                                   processor.document_chunks)]
               /\ UNCHANGED last
    /\ UNCHANGED <<processor, disk, faiss_asc, build, bot, others>>

\* line 249: embeddings.shape[1] raises on no embedding at all
Pd249 ==
    /\ conc.pd.pc = "249"
    /\ IF conc.pd.embeddings = <<>>
       THEN /\ PdReturn("False", "none")
            /\ UNCHANGED processor
       ELSE /\ processor' = [processor EXCEPT !.vector_store = Index(conc.pd.embeddings)]
            /\ conc' = [conc EXCEPT !.pd.pc = "252",
                            !.sr.seen = IF conc.sr.pc # "idle"
                                        THEN @ \cup {processor'} ELSE @]
            /\ UNCHANGED last
    /\ UNCHANGED <<disk, faiss_asc, build, bot, others>>

\* lines 252-255
Pd252 ==
    /\ conc.pd.pc = "252"
    /\ \E fail \in {"none"} \cup SaveFailPoints :
          LET sv == save_vector_database(processor, disk, fail)
          IN  /\ disk' = sv.disk
              /\ PdReturn(Bool(~sv.raised), fail)
    /\ UNCHANGED <<processor, faiss_asc, build, bot, others>>

\* the complete triples live now: the one process_document started from, and
\* the live one once line 249 has run
LiveTriples ==
    CASE conc.pd.pc = "idle" -> {processor}
      [] conc.pd.pc = "252"  -> {conc.pd.old, processor}
      [] OTHER               -> {conc.pd.old}

\* lines 334-340; a call that returns or raises here ran beside nothing
SrStart ==
    /\ conc.sr.pc = "idle"
    /\ conc.searches < MaxSearches
    /\ \E q \in Queries, k \in TopKs, t \in Thresholds, fail \in SearchFailPoints :
          LET args == [SrIdle EXCEPT !.query = q, !.top_k = k,
                                     !.similarity_threshold = t,
                                     !.seen = LiveTriples]
          IN  IF processor.vector_store.none \/ fail = "encode"
              THEN /\ conc' = [conc EXCEPT !.sr = SrIdle, !.searches = @ + 1]
                   /\ last' = SearchCall("search_similar_chunks",
                                  IF processor.vector_store.none THEN "list" ELSE "raise",
                                  IF processor.vector_store.none THEN "none" ELSE fail,
                                  <<>>, q, k, t)
              ELSE /\ conc' = [conc EXCEPT !.sr = [args EXCEPT !.pc = "343",
                                       !.during = conc.pd.pc # "idle"]]
                   /\ UNCHANGED last
    /\ UNCHANGED <<processor, disk, faiss_asc, build, bot, others>>

\* line 343
Sr343 ==
    /\ conc.sr.pc = "343"
    /\ conc' = [conc EXCEPT !.sr.pc = "346", !.sr.i = 1,
                    !.sr.pairs = FaissSearch(processor.vector_store,
                                     EmbedWith(processor.embedding_model_name, conc.sr.query),
                                     conc.sr.top_k, faiss_asc)]
    /\ UNCHANGED <<processor, disk, faiss_asc, last, build, bot, others>>

SrReturn(ret, results) ==
    /\ conc' = [conc EXCEPT !.searches = @ + 1,
                    !.sr = [SrIdle EXCEPT !.seen = conc.sr.seen,
                                          !.during = conc.sr.during]]
    /\ last' = SearchCall("search_similar_chunks", ret, "none", results, conc.sr.query,
                          conc.sr.top_k, conc.sr.similarity_threshold)

\* lines 346-348: the next pair, the threshold, and the read of document_chunks
Sr346 ==
    /\ conc.sr.pc = "346"
    /\ LET sr == conc.sr
       IN  IF sr.i > Len(sr.pairs) THEN SrReturn("list", sr.results)
           ELSE IF ~Passes(sr.pairs[sr.i].sim, sr.similarity_threshold)
                THEN conc' = [conc EXCEPT !.sr.i = @ + 1] /\ UNCHANGED last
           ELSE IF ~PyIndexOk(processor.document_chunks, sr.pairs[sr.i].idx)
                THEN SrReturn("raise", <<>>)
           ELSE /\ conc' = [conc EXCEPT !.sr.pc = "349",
                                !.sr.content = PyIndex(processor.document_chunks,
                                                       sr.pairs[sr.i].idx)]
                /\ UNCHANGED last
    /\ UNCHANGED <<processor, disk, faiss_asc, build, bot, others>>

\* lines 349-350: the read of chunk_metadata, and the append
Sr349 ==
    /\ conc.sr.pc = "349"
    /\ LET sr == conc.sr
       IN  IF ~PyIndexOk(processor.chunk_metadata, sr.pairs[sr.i].idx)
           THEN SrReturn("raise", <<>>)
           ELSE /\ conc' = [conc EXCEPT !.sr.pc = "346", !.sr.i = @ + 1,
                       !.sr.content = <<>>,
                       !.sr.results = Append(@,
                           [content  |-> sr.content,
                            score    |-> sr.pairs[sr.i].sim,
                            metadata |-> PyIndex(processor.chunk_metadata,
                                                 sr.pairs[sr.i].idx),
                            idx      |-> sr.pairs[sr.i].idx])]
                /\ UNCHANGED last
    /\ UNCHANGED <<processor, disk, faiss_asc, build, bot, others>>

NextConc ==
    \/ PdStart \/ Pd242 \/ Pd243 \/ Pd246 \/ Pd249 \/ Pd252
    \/ SrStart \/ Sr343 \/ Sr346 \/ Sr349

SpecConc == InitConc /\ [][NextConc]_vars

\* C10: a search_similar_chunks that ran while process_document rebuilt a
\* Ready DocumentProcessor returns what it would return on one complete
\* triple, the old one or the new one.
C10_SearchSeesOneTriple ==
    (/\ conc.sr.pc = "idle" /\ conc.sr.during
     /\ last.op = "search_similar_chunks"
     /\ \A m \in conc.sr.seen : Ready(m)) =>
        \E m \in conc.sr.seen :
            LET r == search_similar_chunks(m, last.query, last.top_k,
                                           last.similarity_threshold, faiss_asc, "none")
            IN  /\ r.raised = (last.ret = "raise")
                /\ r.results = last.results

(***************************************************************************)
(* AyushBridgeChatbot (chatbot_core.py): the constructor loads the vector  *)
(* database and validates the completion provider; chat retrieves chunks   *)
(* and either asks the provider (chat_with_rag) or answers with the fixed  *)
(* fallback.                                                               *)
(***************************************************************************)
\* chat calls of one chatbot
MaxChats == 2

\* conversation_history keeps the last 20 messages (chatbot_core.py, 197-198);
\* chat_with_rag sends the last 10 of them (openrouter_client.py, 224)
history_limit == 20
rag_history_limit == 10

\* list[-n:]
LastN(list, n) ==
    IF Len(list) <= n THEN list ELSE SubSeq(list, Len(list) - n + 1, Len(list))

\* AyushBridgeChatbot.__init__ with a usable API key: the fields after it
NewBot(top_k_retrieval, similarity_threshold, connected) ==
    [constructed |-> TRUE, is_initialized |-> connected,
     top_k_retrieval |-> top_k_retrieval,
     similarity_threshold |-> similarity_threshold,
     conversation_history |-> <<>>, reply |-> NoReply]

\* a variant of chat that asks the completion provider whatever was retrieved
ChatAlwaysAsksProvider(b, mem, user_message, include_history, asc, fail, provider_ok) ==
    LET retrieved == retrieve_relevant_chunks(mem, user_message, b.top_k_retrieval,
                                              b.similarity_threshold, asc, fail)
        history   == IF include_history THEN b.conversation_history ELSE <<>>
        response  == IF provider_ok THEN "rag" ELSE "rag_error"
        appended  == b.conversation_history
                        \o << [role |-> "user", content |-> user_message],
                              [role |-> "assistant", content |-> <<response>>] >>
    IN  IF ~b.is_initialized
        THEN [b EXCEPT !.reply = [NoReply EXCEPT !.answer = "not_initialized"]]
        ELSE [b EXCEPT
                 !.conversation_history = LastN(appended, history_limit),
                 !.reply = [answer |-> response,
                            chunks_retrieved |-> Len(retrieved),
                            provider_calls |-> 1,
                            history_sent |-> Len(LastN(history, rag_history_limit)),
                            history_dropped |->
                                Max({0, Len(appended) - history_limit})]]

\* a variant of chat that trims the history between the two appends
ChatTrimsBetweenAppends(b, mem, user_message, include_history, asc, fail, provider_ok) ==
    LET retrieved == retrieve_relevant_chunks(mem, user_message, b.top_k_retrieval,
                                              b.similarity_threshold, asc, fail)
        history   == IF include_history THEN b.conversation_history ELSE <<>>
        asked     == retrieved # <<>>
        response  == IF asked THEN (IF provider_ok THEN "rag" ELSE "rag_error")
                              ELSE "fallback"
        with_user == b.conversation_history
                        \o << [role |-> "user", content |-> user_message] >>
    IN  IF ~b.is_initialized
        THEN [b EXCEPT !.reply = [NoReply EXCEPT !.answer = "not_initialized"]]
        ELSE [b EXCEPT
                 !.conversation_history =
                     LastN(with_user, history_limit)
                         \o << [role |-> "assistant", content |-> <<response>>] >>,
                 !.reply = [answer |-> response,
                            chunks_retrieved |-> Len(retrieved),
                            provider_calls |-> IF asked THEN 1 ELSE 0,
                            history_sent |->
                                IF asked THEN Len(LastN(history, rag_history_limit))
                                         ELSE 0,
                            history_dropped |->
                                Max({0, Len(with_user) - history_limit})]]

\* AyushBridgeChatbot.chat: the chatbot after the call.  retrieve_relevant_chunks
\* raises nothing and chat_with_rag turns a provider failure into an apology
\* string, so the except clause of line 218 is not reached from here.
chat(b, mem, user_message, include_history, asc, fail, provider_ok) ==
    LET retrieved == retrieve_relevant_chunks(mem, user_message, b.top_k_retrieval,
                                              b.similarity_threshold, asc, fail)
        history   == IF include_history THEN b.conversation_history ELSE <<>>
        asked     == retrieved # <<>>
        response  == IF asked THEN (IF provider_ok THEN "rag" ELSE "rag_error")
                              ELSE "fallback"
        appended  == b.conversation_history
                        \o << [role |-> "user", content |-> user_message],
                              [role |-> "assistant", content |-> <<response>>] >>
    IN  IF ~b.is_initialized
        THEN [b EXCEPT !.reply = [NoReply EXCEPT !.answer = "not_initialized"]]
        ELSE [b EXCEPT
                 !.conversation_history = LastN(appended, history_limit),
                 !.reply = [answer |-> response,
                            chunks_retrieved |-> Len(retrieved),
                            provider_calls |-> IF asked THEN 1 ELSE 0,
                            history_sent |->
                                IF asked THEN Len(LastN(history, rag_history_limit))
                                         ELSE 0,
                            history_dropped |->
                                Max({0, Len(appended) - history_limit})]]

\* the vector databases a chatbot can start on: none, or the one a complete
\* process_document of a sample document left
PersistedDisks ==
    {process_document(NewProcessor, EmptyDisk, d, "none").disk : d \in SampleDocs}

InitChat ==
    /\ OthersIdle
    /\ processor = NewProcessor
    /\ disk \in PersistedDisks
    /\ faiss_asc \in BOOLEAN
    /\ last = NoCall
    /\ build = BuildIdle
    /\ conc = ConcIdle
    /\ bot = NoBot

\* AyushBridgeChatbot(...): lines 37-79
ChatbotInit ==
    /\ ~bot.constructed
    /\ \E k \in TopKs, t \in Thresholds, fail \in LoadFailPoints, connected \in BOOLEAN,
          embedding_model \in EmbeddingModels :
          LET r == load_vector_database(
                       [NewProcessor EXCEPT !.embedding_model_name = embedding_model],
                       disk, fail)
              reached == /\ disk.index.exists
                         /\ fail = "read_metadata" => disk.chunks.exists
          IN  /\ processor' = r.mem
              /\ bot' = NewBot(k, t, connected)
              \* line 56: the chatbot warns when the load returned False
              /\ last' = [Call("load_vector_database", Bool(r.ret),
                               IF reached THEN fail ELSE "none")
                             EXCEPT !.warnings = r.warnings \cup
                                 (IF r.ret THEN {} ELSE {"Vector database not found"})]
    /\ UNCHANGED <<disk, faiss_asc, build, conc, others>>

\* AyushBridgeChatbot.retrieve_relevant_chunks
RetrieveRelevantChunks ==
    /\ bot.constructed
    /\ \E q \in Queries, fail \in SearchFailPoints :
          last' = SearchCall("retrieve_relevant_chunks", "list",
                      IF processor.vector_store.none THEN "none" ELSE fail,
                      retrieve_relevant_chunks(processor, q, bot.top_k_retrieval,
                          bot.similarity_threshold, faiss_asc, fail),
                      q, bot.top_k_retrieval, bot.similarity_threshold)
    /\ UNCHANGED <<processor, disk, faiss_asc, build, conc, bot, others>>

\* AyushBridgeChatbot.chat; last describes the retrieval it made
Chat ==
    /\ bot.constructed
    /\ Len(bot.conversation_history) < 2 * MaxChats
    /\ \E q \in Queries, include_history \in BOOLEAN, fail \in SearchFailPoints,
          provider_ok \in BOOLEAN :
          /\ bot' = chat(bot, processor, q, include_history, faiss_asc, fail, provider_ok)
          /\ last' = IF ~bot.is_initialized THEN Call("chat", "dict", "none")
                     ELSE SearchCall("retrieve_relevant_chunks", "list",
                              IF processor.vector_store.none THEN "none" ELSE fail,
                              retrieve_relevant_chunks(processor, q, bot.top_k_retrieval,
                                  bot.similarity_threshold, faiss_asc, fail),
                              q, bot.top_k_retrieval, bot.similarity_threshold)
    /\ UNCHANGED <<processor, disk, faiss_asc, build, conc, others>>

NextChat == ChatbotInit \/ RetrieveRelevantChunks \/ Chat

SpecChat == InitChat /\ [][NextChat]_vars

\* C12: when the embedding model fails on the query, retrieve_relevant_chunks
\* returns [] and raises nothing, and the index, the chunk list and the
\* metadata list (and the files) are as they were before the call.
C12_EmbeddingFailureReturnsEmpty ==
    [][(last'.op = "retrieve_relevant_chunks" /\ last'.fail = "encode") =>
           /\ last'.ret = "list"
           /\ last'.results = <<>>
           /\ processor' = processor
           /\ disk' = disk]_vars

\* C12 witness: the embedding failed on a query served by a Ready processor.
C12_Witness ==
    /\ last.op = "retrieve_relevant_chunks"
    /\ last.fail = "encode"
    /\ Ready(processor)

\* the configuration of this process differs from the one saved in config.pkl
ConfigMismatch ==
    /\ disk.config.exists
    /\ \/ disk.config.embedding_model # processor.embedding_model_name
       \/ disk.config.chunk_size # chunk_size
       \/ disk.config.chunk_overlap # chunk_overlap
       \/ disk.config.total_chunks # Len(processor.document_chunks)

\* C23: a load_vector_database that returned True in a process whose
\* configuration (embedding model, chunk size, overlap, number of chunks)
\* differs from the one saved with the index has logged a warning.
C23_LoadWarnsOnConfigMismatch ==
    (last.op = "load_vector_database" /\ last.ret = "True" /\ ConfigMismatch)
        => last.warnings # {}

\* C17: a chat that retrieved nothing answers with the fixed fallback and does
\* not call the completion provider; a chat calls the provider exactly when
\* it retrieved one chunk or more.
C17_FallbackWithoutProvider ==
    /\ bot.reply.provider_calls >= 1 <=> bot.reply.chunks_retrieved >= 1
    /\ (bot.reply.answer \notin {"none", "not_initialized"}
        /\ bot.reply.chunks_retrieved = 0) => bot.reply.answer = "fallback"
    /\ bot.reply.answer = "fallback" => bot.reply.chunks_retrieved = 0

\* C17 witness: one chatbot has answered with the fallback, after a retrieval
\* on a Ready index that found nothing above the threshold.
C17_Witness ==
    /\ bot.reply.answer = "fallback"
    /\ Ready(processor)
    /\ last.op = "retrieve_relevant_chunks" /\ last.fail = "none"
    /\ Len(bot.conversation_history) = 2 * MaxChats

(***************************************************************************)
(* extract_sections called on a document as it is (header markers intact), *)
(* on every document of at most MaxLines lines.                            *)
(***************************************************************************)
\* the lines these documents are made of: blank, body text, indented body
\* text, a header with a title, a bare level-2 marker, seven '#' and a title
ExtractLineSet == { <<>>, <<"a">>, <<" ", "b">>, <<"#", " ", "b">>, <<"#", "#">>,
                    <<"#", "#", "#", "#", "#", "#", "#", "a">> }

ExtractDocs ==
    {JoinLines(ls) : ls \in UNION {[1..n -> ExtractLineSet] : n \in 0..MaxLines}}

InitExtract ==
    /\ OthersIdle
    /\ processor = NewProcessor
    /\ disk = EmptyDisk
    /\ faiss_asc = TRUE
    /\ last = NoCall
    /\ conc = ConcIdle
    /\ bot = NoBot
    /\ \E d \in ExtractDocs :
          build = [stage |-> "read", doc |-> d, text |-> d,
                   sections |-> <<>>, chunks |-> <<>>]

\* extract_sections(text)
ExtractSections ==
    /\ build.stage = "read"
    /\ build' = [build EXCEPT !.stage = "extracted",
                              !.sections = extract_sections(build.text)]
    /\ UNCHANGED <<processor, disk, faiss_asc, last, conc, bot, others>>

NextExtract == ExtractSections

SpecExtract == InitExtract /\ [][NextExtract]_vars

\* the members of a set of line numbers, in ascending order
Ascending(S) ==
    [k \in 1..Cardinality(S) |-> CHOOSE i \in S : Cardinality({j \in S : j < i}) = k - 1]

\* line numbers of the header lines of a document
HeaderLineNumbers(lines) == {i \in 1..Len(lines) : IsHeaderLine(lines[i])}

\* the stretch a line belongs to: the number of header lines up to it (0 is
\* the stretch before the first header)
Stretch(lines, i) == Cardinality({j \in HeaderLineNumbers(lines) : j <= i})

\* a stretch is blank when none of its non-header lines holds a character
\* other than whitespace
BlankStretch(lines, s) ==
    \A j \in 1..Len(lines) :
        (j \notin HeaderLineNumbers(lines) /\ Stretch(lines, j) = s) => Strip(lines[j]) = <<>>

\* the non-header lines of a document, in order
NonHeaderLines(doc) ==
    LET lines == SplitLines(doc)
        at == Ascending((1..Len(lines)) \ HeaderLineNumbers(lines))
    IN  [k \in 1..Len(at) |-> lines[at[k]]]

\* the non-header lines of a document outside its blank stretches, in order
NonHeaderLinesKept(doc) ==
    LET lines == SplitLines(doc)
        at == Ascending({i \in (1..Len(lines)) \ HeaderLineNumbers(lines) :
                            ~BlankStretch(lines, Stretch(lines, i))})
    IN  [k \in 1..Len(at) |-> lines[at[k]]]

\* the bodies of the sections one after the other, as a sequence of lines
RECURSIVE ConcatBodies(_)
ConcatBodies(sections) ==
    IF sections = <<>> THEN <<>>
    ELSE sections[1].content \o ConcatBodies(Tail(sections))

BodyLines(sections) ==
    LET text == ConcatBodies(sections)
    IN  IF text = <<>> THEN <<>>
        ELSE SubSeq(SplitLines(text), 1, Len(SplitLines(text)) - 1)

\* C18, as stated: the bodies of the sections extract_sections returns, one
\* after the other, are exactly the non-header lines of the document, in order.
C18_BodiesReproduceNonHeaderLines ==
    build.stage = "extracted" => BodyLines(build.sections) = NonHeaderLines(build.doc)

\* C18, amended: the bodies of the sections extract_sections returns, one
\* after the other, are the non-header lines of the document in order, each
\* as it was written, without the lines of the blank stretches (a stretch
\* between two headers, before the first or after the last, that holds only
\* blank lines); so no line that holds a character is lost.
C18_BodiesReproduceKeptLines ==
    build.stage = "extracted" =>
        /\ BodyLines(build.sections) = NonHeaderLinesKept(build.doc)
        /\ \A i \in 1..Len(NonHeaderLines(build.doc)) :
              Strip(NonHeaderLines(build.doc)[i]) # <<>> =>
                  \E k \in 1..Len(BodyLines(build.sections)) :
                      BodyLines(build.sections)[k] = NonHeaderLines(build.doc)[i]

\* C18 witness: sections were extracted from a document that has a blank
\* stretch, whose lines are left out, and an indented body line, which is kept.
C18_Witness ==
    /\ build.stage = "extracted"
    /\ build.sections # <<>>
    /\ Len(BodyLines(build.sections)) < Len(NonHeaderLines(build.doc))
    /\ \E k \in 1..Len(BodyLines(build.sections)) :
          BodyLines(build.sections)[k] = <<" ", "b">>

NoHeaderLine(doc) == HeaderLineNumbers(SplitLines(doc)) = {}

\* C19, as stated: a document without a header line gives exactly one
\* section, titled "Introduction", of level 1, holding the whole document.
C19_NoHeaderOneSection ==
    (build.stage = "extracted" /\ NoHeaderLine(build.doc)) =>
        /\ Len(build.sections) = 1
        /\ build.sections[1].title = <<"Introduction">>
        /\ build.sections[1].level = 1
        /\ Strip(build.sections[1].content) = Strip(build.doc)

\* C19, amended: a document without a header line that holds a character
\* other than whitespace gives exactly one section, titled "Introduction", of
\* level 1, whose body is the whole document followed by a newline; an empty
\* or all-blank document gives no section.
C19_NoHeaderOneSectionUnlessBlank ==
    (build.stage = "extracted" /\ NoHeaderLine(build.doc)) =>
        IF Strip(build.doc) = <<>>
        THEN build.sections = <<>>
        ELSE build.sections = << [title   |-> <<"Introduction">>,
                                  content |-> build.doc \o <<NL>>,
                                  level   |-> 1] >>

\* C19 witness: one section was extracted from a document of several lines,
\* none of them a header, one of them blank.
C19_Witness ==
    /\ build.stage = "extracted" /\ NoHeaderLine(build.doc)
    /\ Len(build.sections) = 1
    /\ Len(SplitLines(build.doc)) >= 3
    /\ \E i \in 1..Len(SplitLines(build.doc)) : SplitLines(build.doc)[i] = <<>>

\* the stretches of a document that are not blank, in document order
LiveStretches(doc) ==
    LET lines == SplitLines(doc)
    IN  Ascending({s \in 0..Cardinality(HeaderLineNumbers(lines)) :
                      \E j \in 1..Len(lines) :
                          /\ j \notin HeaderLineNumbers(lines)
                          /\ Stretch(lines, j) = s
                          /\ Strip(lines[j]) # <<>>})

\* the number of '#' a header line starts with
LeadingHashes(line) == HashRunEnd(Strip(line), 1)

\* C20: extract_sections returns one section for each stretch that is not
\* blank, in document order; each has a body that is not empty after
\* trimming and a level in 1..6 that is the number of '#' its header line
\* starts with (level 1 for the seeded "Introduction" section).
C20_SectionLevelsAndBodies ==
    build.stage = "extracted" =>
        LET lines == SplitLines(build.doc)
            hs    == Ascending(HeaderLineNumbers(lines))
            live  == LiveStretches(build.doc)
        IN  /\ Len(build.sections) = Len(live)
            /\ \A k \in 1..Len(build.sections) :
                  /\ Strip(build.sections[k].content) # <<>>
                  /\ build.sections[k].level \in 1..6
                  /\ k <= Len(live) =>
                        build.sections[k].level =
                            IF live[k] = 0 THEN 1 ELSE LeadingHashes(lines[hs[live[k]]])

(***************************************************************************)
(* create_chunks_with_context called on a list of sections, on every list  *)
(* of at most MaxSections sections.                                        *)
(***************************************************************************)
\* sections of one call
MaxSections == 3

\* the bodies of these sections: empty; blank; shorter than chunk_size;
\* chunk_size characters once trimmed; one character more; two chunk sizes
SectionBodies ==
    { <<>>,
      <<" ", NL>>,
      <<"a", NL>>,
      <<"a", "b", " ", "a", NL>>,
      <<"a", "b", " ", "a", "b", NL>>,
      <<"a", "b", "a", "b", "a", "b", "a", "b", NL>> }

SectionSet ==
    [title : {<<"a">>, <<"b">>}, content : SectionBodies, level : {1}]

SectionLists == UNION {[1..n -> SectionSet] : n \in 0..MaxSections}

InitChunk ==
    /\ OthersIdle
    /\ processor = NewProcessor
    /\ disk = EmptyDisk
    /\ faiss_asc = TRUE
    /\ last = NoCall
    /\ conc = ConcIdle
    /\ bot = NoBot
    /\ \E ss \in SectionLists :
          build = [stage |-> "sections", doc |-> <<>>, text |-> <<>>,
                   sections |-> ss, chunks |-> <<>>]

\* create_chunks_with_context(sections)
CreateChunks ==
    /\ build.stage = "sections"
    /\ build' = [build EXCEPT !.stage = "chunks",
                              !.chunks = create_chunks_with_context(build.sections)]
    /\ UNCHANGED <<processor, disk, faiss_asc, last, conc, bot, others>>

NextChunk == CreateChunks

SpecChunk == InitChunk /\ [][NextChunk]_vars

\* the sections of a list whose body is not blank, in order
LiveSections(sections) ==
    LET at == Ascending({k \in 1..Len(sections) : Strip(sections[k].content) # <<>>})
    IN  [j \in 1..Len(at) |-> sections[at[j]]]

\* the positions, in a list of chunks, of the chunks with chunk_index 0
GroupStarts(chunks) ==
    Ascending({i \in 1..Len(chunks) : chunks[i].chunk_index = 0})

\* C21: the chunks create_chunks_with_context returns fall into consecutive
\* groups, one for each section whose trimmed body is not empty, in the order
\* of the sections; within a group chunk_index is 0, 1, ..., n - 1 and every
\* chunk carries total_chunks = n, the size of the group, and the title of
\* its section.  Sections with a blank body have no group.
C21_ChunkIndicesPerSection ==
    build.stage = "chunks" =>
        LET chunks == build.chunks
            starts == GroupStarts(chunks)
            live   == LiveSections(build.sections)
        IN  /\ chunks # <<>> => chunks[1].chunk_index = 0
            /\ \A i \in 1..Len(chunks) :
                  /\ chunks[i].chunk_index \in 0..(chunks[i].total_chunks - 1)
                  /\ IF chunks[i].chunk_index < chunks[i].total_chunks - 1
                     THEN /\ i < Len(chunks)
                          /\ chunks[i + 1].chunk_index = chunks[i].chunk_index + 1
                          /\ chunks[i + 1].total_chunks = chunks[i].total_chunks
                          /\ chunks[i + 1].section = chunks[i].section
                     ELSE i < Len(chunks) => chunks[i + 1].chunk_index = 0
            /\ Len(starts) = Len(live)
            /\ \A j \in 1..Len(starts) :
                  j <= Len(live) => chunks[starts[j]].section = live[j].title

\* C21 witness: chunks were made from a list that holds a section with a
\* blank body, a section of one chunk and a section of three chunks.
C21_Witness ==
    /\ build.stage = "chunks"
    /\ \E k \in 1..Len(build.sections) : Strip(build.sections[k].content) = <<>>
    /\ \E i \in 1..Len(build.chunks) : build.chunks[i].total_chunks = 1
    /\ \E i \in 1..Len(build.chunks) : build.chunks[i].chunk_index = 2

\* C22: a section whose trimmed body is not empty and has at most chunk_size
\* characters (chunk_size itself included) gives exactly one chunk, with
\* chunk_index 0, total_chunks 1 and the content "Section: {title}\n\n"
\* followed by the trimmed body.
C22_ShortSectionOneChunk ==
    build.stage = "chunks" =>
        LET chunks == build.chunks
            starts == GroupStarts(chunks)
            live   == LiveSections(build.sections)
        IN  /\ Len(starts) = Len(live)
            /\ \A j \in 1..Len(live) :
                  (j <= Len(starts) /\ Len(Strip(live[j].content)) <= chunk_size) =>
                      /\ chunks[starts[j]].total_chunks = 1
                      /\ chunks[starts[j]].content =
                             <<"Section: ">> \o live[j].title \o <<NL, NL>>
                                 \o Strip(live[j].content)
                      /\ starts[j] < Len(chunks) => chunks[starts[j] + 1].chunk_index = 0

\* C22 witness: chunks were made from a list that holds a section whose
\* trimmed body has exactly chunk_size characters, after a longer one.
C22_Witness ==
    /\ build.stage = "chunks"
    /\ \E k \in 2..Len(build.sections) :
          /\ Len(Strip(build.sections[k].content)) = chunk_size
          /\ Len(Strip(build.sections[k - 1].content)) > chunk_size

(***************************************************************************)
(* preprocess_markdown on its own: the texts it is called on are made of   *)
(* up to MaxPreLines lines drawn from PreLineSet.                          *)
(***************************************************************************)
MaxPreLines == 5

PreLineSet == { <<>>, <<"a">>, <<"#", "a">>, <<Fence>>, <<Badge>>, <<Link>> }

PreDocs ==
    {JoinLines(ls) : ls \in UNION {[1..n -> PreLineSet] : n \in 0..MaxPreLines}}

InitPreprocess ==
    /\ OthersIdle
    /\ processor = NewProcessor
    /\ disk = EmptyDisk
    /\ faiss_asc = TRUE
    /\ last = NoCall
    /\ conc = ConcIdle
    /\ bot = NoBot
    /\ \E d \in PreDocs :
          build = [stage |-> "read", doc |-> d, text |-> d,
                   sections |-> <<>>, chunks |-> <<>>]

\* text = self.preprocess_markdown(text)
PreprocessMarkdown ==
    /\ build.stage = "read"
    /\ build' = [build EXCEPT !.stage = "preprocessed",
                              !.text = preprocess_markdown(build.doc)]
    /\ UNCHANGED <<processor, disk, faiss_asc, last, conc, bot, others>>

NextPreprocess == PreprocessMarkdown

SpecPreprocess == InitPreprocess /\ [][NextPreprocess]_vars

\* C24: the text preprocess_markdown returns never holds three newlines in a
\* row, whatever the input (badges, links, header markers or code fences
\* between blank lines included).
C24_NoThreeNewlines ==
    build.stage = "preprocessed" =>
        \A i \in 1..(Len(build.text) - 2) :
            ~(build.text[i] = NL /\ build.text[i + 1] = NL /\ build.text[i + 2] = NL)

(***************************************************************************)
(* The conversation history of one AyushBridgeChatbot over any number of   *)
(* chat and reset_conversation calls.  The chatbot is constructed on the   *)
(* vector database of a sample document (a header and a body); the        *)
(* history bounds itself (line 198), so the calls are not counted.         *)
(***************************************************************************)
HistoryDisk ==
    process_document(NewProcessor, EmptyDisk,
                     JoinLines(<< <<"#", " ", "a">>, <<"b">> >>), "none").disk

InitHistory ==
    /\ OthersIdle
    /\ disk = HistoryDisk
    /\ processor = load_vector_database(NewProcessor, disk, "none").mem
    /\ faiss_asc = TRUE
    /\ last = NoCall
    /\ build = BuildIdle
    /\ conc = ConcIdle
    /\ \E connected \in BOOLEAN : bot = NewBot(1, FltLowest, connected)

\* AyushBridgeChatbot.chat
HistoryChat ==
    /\ \E q \in Queries :
          bot' = chat(bot, processor, q, TRUE, faiss_asc, "none", TRUE)
    /\ last' = Call("chat", "dict", "none")
    /\ UNCHANGED <<processor, disk, faiss_asc, build, conc, others>>

\* AyushBridgeChatbot.reset_conversation
ResetConversation ==
    /\ bot' = [bot EXCEPT !.conversation_history = <<>>]
    /\ last' = Call("reset_conversation", "None", "none")
    /\ UNCHANGED <<processor, disk, faiss_asc, build, conc, others>>

NextHistory == HistoryChat \/ ResetConversation

SpecHistory == InitHistory /\ [][NextHistory]_vars

\* C25: after any sequence of chat and reset_conversation calls the history
\* holds at most 20 messages, an even number of them, alternating user and
\* assistant from a user message on; reset_conversation leaves it empty, and
\* a chat on a chatbot that is not initialized leaves it as it was.
C25_HistoryShape ==
    /\ [](/\ Len(bot.conversation_history) <= history_limit
          /\ Len(bot.conversation_history) % 2 = 0
          /\ \A i \in 1..Len(bot.conversation_history) :
                bot.conversation_history[i].role =
                    (IF i % 2 = 1 THEN "user" ELSE "assistant")
          /\ last.op = "reset_conversation" => bot.conversation_history = <<>>)
    /\ [][(last'.op = "chat" /\ ~bot.is_initialized)
             => bot'.conversation_history = bot.conversation_history]_vars

\* a chat on a full history dropped the oldest exchange
C25_Witness ==
    /\ last.op = "chat"
    /\ bot.reply.history_dropped = 2
    /\ Len(bot.conversation_history) = history_limit

(***************************************************************************)
(* simple_app.py and simple_chatbot.py: the module-level chatbot, the      *)
(* start-up call initialize_chatbot, and the endpoints /api/chat and       *)
(* /api/reset.                                                             *)
(***************************************************************************)
\* the DocumentProcessor and its chatbot are not part of these scripts
CoreIdle ==
    /\ processor = NewProcessor
    /\ disk = EmptyDisk
    /\ faiss_asc = TRUE
    /\ last = NoCall
    /\ build = BuildIdle
    /\ conc = ConcIdle
    /\ bot = NoBot

\* SimpleAyushBridgeChatbot.chat keeps the last 10 messages (simple_chatbot.py, 218-219)
simple_history_limit == 10

\* chatbot = None (simple_app.py, line 23)
NoSimpleChatbot ==
    [none |-> TRUE, is_initialized |-> FALSE, use_groq |-> FALSE,
     conversation_history |-> <<>>]

\* the API key in the environment: unset, the placeholder, or a key
ApiKeys == {"", "your_groq_api_key_here", "key"}

\* SimpleAyushBridgeChatbot(api_key): OllamaGroqClient raises ValueError on a
\* missing or placeholder key when use_groq; is_initialized tells whether
\* README.md could be read
SimpleAyushBridgeChatbot(api_key, use_groq, readme_ok) ==
    IF use_groq /\ api_key \in {"", "your_groq_api_key_here"}
    THEN [raised |-> TRUE, obj |-> NoSimpleChatbot]
    ELSE [raised |-> FALSE,
          obj |-> [none |-> FALSE, is_initialized |-> readme_ok,
                   use_groq |-> use_groq, conversation_history |-> <<>>]]

\* SimpleAyushBridgeChatbot.__init__ sets ollama_groq_client and no attribute
\* named openrouter_client
HasOpenrouterClient == FALSE

\* initialize_chatbot(): the module-level chatbot after it, and what it
\* returned.  The assignment of line 38 comes before the attribute access of
\* line 39, whose AttributeError the except clause of line 48 turns into False.
initialize_chatbot(chatbot, api_key, use_groq, readme_ok) ==
    LET made == SimpleAyushBridgeChatbot(api_key, use_groq, readme_ok)
    IN  IF api_key = "" THEN [chatbot |-> chatbot, ret |-> FALSE]
        ELSE IF made.raised THEN [chatbot |-> chatbot, ret |-> FALSE]
        ELSE IF ~HasOpenrouterClient THEN [chatbot |-> made.obj, ret |-> FALSE]
        ELSE [chatbot |-> made.obj, ret |-> made.obj.is_initialized]

\* what chat_completion does: it returns a response in the format of Groq or
\* of Ollama, returns some other JSON, or raises
Completions == {"groq", "ollama", "other", "raises"}

\* lines 213-217: the content can be extracted from the response
ContentExtracted(use_groq, completion) ==
    completion = (IF use_groq THEN "groq" ELSE "ollama")

\* a variant of SimpleAyushBridgeChatbot.chat that records the user message
\* before it sends the request
SimpleChatAppendsFirst(cb, user_message, completion) ==
    LET with_user == cb.conversation_history
                        \o << [role |-> "user", content |-> user_message] >>
        appended  == with_user \o << [role |-> "assistant", content |-> "content"] >>
    IN  IF ~cb.is_initialized
        THEN [cb |-> cb, answer |-> "not_initialized", error |-> TRUE, dropped |-> 0]
        ELSE IF ~ContentExtracted(cb.use_groq, completion)
        THEN [cb |-> [cb EXCEPT !.conversation_history = with_user],
              answer |-> "error", error |-> TRUE, dropped |-> 0]
        ELSE [cb |-> [cb EXCEPT !.conversation_history =
                                    LastN(appended, simple_history_limit)],
              answer |-> "content", error |-> FALSE,
              dropped |-> Max({0, Len(appended) - simple_history_limit})]

\* SimpleAyushBridgeChatbot.chat(user_message): the chatbot after the call and
\* the dictionary returned (answer, whether it has the key error); dropped is
\* the number of messages the slice of line 219 dropped
SimpleChat(cb, user_message, completion) ==
    LET appended == cb.conversation_history
                        \o << [role |-> "user", content |-> user_message],
                              [role |-> "assistant", content |-> "content"] >>
    IN  IF ~cb.is_initialized
        THEN [cb |-> cb, answer |-> "not_initialized", error |-> TRUE, dropped |-> 0]
        ELSE IF ~ContentExtracted(cb.use_groq, completion)
        THEN [cb |-> cb, answer |-> "error", error |-> TRUE, dropped |-> 0]
        ELSE [cb |-> [cb EXCEPT !.conversation_history =
                                    LastN(appended, simple_history_limit)],
              answer |-> "content", error |-> FALSE,
              dropped |-> Max({0, Len(appended) - simple_history_limit})]

\* the JSON bodies POSTed to /api/chat: none, an empty message, a message, a
\* message with a temperature that float() rejects
ChatBodies == {"none", "empty", "a", "b", "bad_temperature"}

NoResponse == [endpoint |-> "none", status |-> 0, chat_called |-> FALSE,
               completion |-> "none", answer |-> "none", error |-> FALSE,
               dropped |-> 0]

\* chat_endpoint(): the module-level chatbot after the request and the response
chat_endpoint(chatbot, body, completion) ==
    LET r == SimpleChat(chatbot, body, completion)
        reply(status) == [NoResponse EXCEPT !.endpoint = "chat", !.status = status]
    IN  IF chatbot.none \/ ~chatbot.is_initialized
        THEN [chatbot |-> chatbot, response |-> reply(503)]
        ELSE IF body \in {"none", "empty"}
        THEN [chatbot |-> chatbot, response |-> reply(400)]
        ELSE IF body = "bad_temperature"
        THEN [chatbot |-> chatbot, response |-> reply(500)]
        ELSE [chatbot |-> r.cb,
              response |-> [endpoint |-> "chat", status |-> 200,
                            chat_called |-> TRUE, completion |-> completion,
                            answer |-> r.answer, error |-> r.error,
                            dropped |-> r.dropped]]

InitSimple ==
    /\ CoreIdle
    /\ bulk = NotRunning
    /\ icd = NotRunning
    /\ simple = [on |-> TRUE, init_ret |-> "none", chatbot |-> NoSimpleChatbot,
                 response |-> NoResponse]

\* chatbot_ready = initialize_chatbot() (simple_app.py, line 220)
InitializeChatbot ==
    /\ simple.init_ret = "none"
    /\ \E api_key \in ApiKeys, use_groq \in BOOLEAN, readme_ok \in BOOLEAN :
          LET r == initialize_chatbot(simple.chatbot, api_key, use_groq, readme_ok)
          IN  simple' = [simple EXCEPT !.init_ret = Bool(r.ret),
                                       !.chatbot = r.chatbot]
    /\ UNCHANGED <<core, bulk, icd>>

\* POST /api/chat
ChatEndpoint ==
    /\ \E body \in ChatBodies, completion \in Completions :
          LET r == chat_endpoint(simple.chatbot, body, completion)
          IN  simple' = [simple EXCEPT !.chatbot = r.chatbot,
                                       !.response = r.response]
    /\ UNCHANGED <<core, bulk, icd>>

\* POST /api/reset
ResetEndpoint ==
    /\ simple' = [simple EXCEPT
                     !.chatbot = IF simple.chatbot.none THEN @
                                 ELSE [@ EXCEPT !.conversation_history = <<>>],
                     !.response = [NoResponse EXCEPT !.endpoint = "reset",
                                                     !.status = 200]]
    /\ UNCHANGED <<core, bulk, icd>>

NextSimple == InitializeChatbot \/ ChatEndpoint \/ ResetEndpoint

SpecSimple == InitSimple /\ [][NextSimple]_vars

\* C26: the history of a SimpleAyushBridgeChatbot never holds more than 10
\* messages, and a chat whose completion request raises, or whose response
\* has not the expected shape, returns an error answer and leaves the history
\* as it was.
C26_SimpleHistoryBounded ==
    /\ [](Len(simple.chatbot.conversation_history) <= simple_history_limit)
    /\ [][(/\ simple'.response.chat_called
           /\ ~ContentExtracted(simple.chatbot.use_groq, simple'.response.completion))
             => /\ simple'.chatbot.conversation_history
                       = simple.chatbot.conversation_history
                /\ simple'.response.error
                /\ simple'.response.answer = "error"]_vars

\* a failed completion on a chatbot whose history is full
C26_Witness ==
    /\ simple.response.chat_called
    /\ simple.response.answer = "error"
    /\ Len(simple.chatbot.conversation_history) = simple_history_limit

\* C27: once initialize_chatbot has returned False, every POST /api/chat
\* answers 503 and chatbot.chat is not called.
C27_NotReadyMeans503 ==
    (simple.init_ret = "False" /\ simple.response.endpoint = "chat")
        => (simple.response.status = 503 /\ ~simple.response.chat_called)

(***************************************************************************)
(* bulk_codes_async.fetch_json: one call, an action for each pass through  *)
(* the loop (one request and what came back).                              *)
(***************************************************************************)
\* for _ in range(3)
fetch_attempts == 3

\* the URLs of a call: a codeinfo URL, an entity URL
FetchUrls == {"codeinfo", "entity"}

\* what a request comes back with: session.get raised (status 0), or a status;
\* a 200 has a body that resp.json() decodes or one on which it raises
Raised == [status |-> 0, body |-> "none"]
Outcomes ==
    {Raised}
    \cup {[status |-> st, body |-> "none"] : st \in {429, 404, 500}}
    \cup {[status |-> 200, body |-> b] : b \in {"json_a", "json_b", "undecodable"}}

NewFetch(url) ==
    [on |-> TRUE, fn |-> "fetch_json", url |-> url, pc |-> "loop",
     requests |-> 0, outcomes |-> <<>>, ret |-> "pending"]

\* a variant of the loop body that tries again after any status but 200
FetchJsonRetriesOnStatus(call, outcome) ==
    LET c1 == [call EXCEPT !.requests = @ + 1, !.outcomes = Append(@, outcome)]
    IN  IF outcome.status = 200 /\ outcome.body # "undecodable"
        THEN [c1 EXCEPT !.pc = "returned", !.ret = outcome.body]
        ELSE IF c1.requests = fetch_attempts
        THEN [c1 EXCEPT !.pc = "returned", !.ret = "None"]
        ELSE c1

\* one pass through the loop of fetch_json, and the return after the loop when
\* it was the last pass.  The except clause covers session.get and resp.json().
fetch_json_pass(call, outcome) ==
    LET c1 == [call EXCEPT !.requests = @ + 1, !.outcomes = Append(@, outcome)]
        again == \/ outcome = Raised
                 \/ outcome.status = 429
                 \/ outcome.status = 200 /\ outcome.body = "undecodable"
    IN  IF ~again
        THEN [c1 EXCEPT !.pc = "returned",
                        !.ret = IF outcome.status = 200 THEN outcome.body ELSE "None"]
        ELSE IF c1.requests = fetch_attempts
        THEN [c1 EXCEPT !.pc = "returned", !.ret = "None"]
        ELSE c1

InitFetch ==
    /\ CoreIdle
    /\ simple = NotRunning
    /\ icd = NotRunning
    /\ \E url \in FetchUrls : bulk = NewFetch(url)

\* async with session.get(url, params=params) as resp: ...
FetchPass ==
    /\ bulk.pc = "loop"
    /\ \E outcome \in Outcomes : bulk' = fetch_json_pass(bulk, outcome)
    /\ UNCHANGED <<core, simple, icd>>

NextFetch == FetchPass

\* every request completes: the event loop resumes the call
SpecFetch == InitFetch /\ [][NextFetch]_vars /\ WF_vars(NextFetch)

\* the attempts answered with status 200; those whose body was decoded
Answered200 == {i \in 1..Len(bulk.outcomes) : bulk.outcomes[i].status = 200}
Decoded200 == {i \in Answered200 : bulk.outcomes[i].body # "undecodable"}

\* the attempts that were rate-limited or raised (session.get or resp.json())
Retried(i) ==
    \/ bulk.outcomes[i] = Raised
    \/ bulk.outcomes[i].status = 429
    \/ bulk.outcomes[i].status = 200 /\ bulk.outcomes[i].body = "undecodable"

\* at most three requests; a status other than 200 and 429 ends the call with
\* None at once; three attempts that were rate-limited or raised end it with None
FetchBoundedAndNone ==
    /\ bulk.requests <= fetch_attempts
    /\ bulk.requests = Len(bulk.outcomes)
    /\ \A i \in 1..Len(bulk.outcomes) :
          bulk.outcomes[i].status \notin {0, 200, 429}
              => i = Len(bulk.outcomes) /\ bulk.pc = "returned" /\ bulk.ret = "None"
    /\ (Len(bulk.outcomes) = fetch_attempts
            /\ \A i \in 1..fetch_attempts : Retried(i))
          => bulk.pc = "returned" /\ bulk.ret = "None"

\* C29 as stated: at most three requests and the call returns; it returns the
\* JSON body of the first attempt answered with status 200, None at once on a
\* status other than 200 and 429, None after three attempts that were
\* rate-limited or raised.
C29_FetchJsonFirst200 ==
    /\ [](/\ FetchBoundedAndNone
          /\ Answered200 # {}
                => /\ bulk.pc = "returned"
                   /\ bulk.ret = bulk.outcomes[Min(Answered200)].body)
    /\ <>(bulk.pc = "returned")

\* C29 amended: the body returned is that of the first attempt answered with
\* status 200 whose body resp.json() decoded; a 200 on which resp.json() raises
\* counts as an attempt that raised.
C29_FetchJsonFirstDecoded200 ==
    /\ [](/\ FetchBoundedAndNone
          /\ Decoded200 # {}
                => /\ bulk.pc = "returned"
                   /\ bulk.ret = bulk.outcomes[Min(Decoded200)].body
          /\ (bulk.pc = "returned" /\ Decoded200 = {}) => bulk.ret = "None")
    /\ <>(bulk.pc = "returned")

\* a call that returned the body of its third attempt after a 200 that could
\* not be decoded and a 429
C29_Witness ==
    /\ bulk.pc = "returned"
    /\ bulk.requests = fetch_attempts
    /\ bulk.outcomes[1].body = "undecodable"
    /\ bulk.outcomes[2].status = 429
    /\ bulk.ret = "json_a"

(***************************************************************************)
(* bulk_codes_async.main_async: one task per code, each behind the         *)
(* semaphore; an action for each resumption of a coroutine by the event    *)
(* loop.  CONCURRENCY is scaled from 20.                                   *)
(***************************************************************************)
MaxCodes == 3
CONCURRENCY == 2

\* the codes handed to main_async: MaxCodes codes, the first of them a code
\* or a blank
CodeLists ==
    {codes \in [1..MaxCodes -> {"1A00", " "}] : \A i \in 2..MaxCodes : codes[i] # " "}

\* where a task is: not started, queued on the semaphore, inside process_code
\* at one of its awaits, or finished
ProcessCodeAwaits == {"codeinfo", "search", "entity", "generic", "flat"}

NewMain(codes) ==
    [on |-> TRUE, fn |-> "main_async", codes |-> codes,
     sem |-> CONCURRENCY, waiters |-> <<>>, blocked |-> FALSE,
     pc |-> [t \in 1..Len(codes) |-> "created"],
     completed |-> <<>>, collected |-> 0, returned |-> FALSE]

\* the tasks inside process_code
InProgress(b) == {t \in DOMAIN b.pc : b.pc[t] \in ProcessCodeAwaits}

\* results: what main_async has appended so far
Results(b) == SubSeq(b.completed, 1, b.collected)

\* process_code returns (code, title, definition) and the task leaves
\* async with sem: the semaphore is released
Return(b, t, title, definition) ==
    [b EXCEPT !.pc[t] = "done",
              !.sem = @ + 1,
              !.completed = Append(@, [task |-> t, code |-> Strip(<<b.codes[t]>>),
                                       title |-> title, definition |-> definition])]

\* the semaphore taken, process_code runs to its first await: a blank code
\* returns at once (line 153), any other awaits the codeinfo request
Enter(b, t) ==
    LET b1 == [b EXCEPT !.sem = @ - 1]
    IN  IF Strip(<<b.codes[t]>>) = <<>>
        THEN Return(b1, t, "", "")
        ELSE [b1 EXCEPT !.pc[t] = "codeinfo"]

\* a variant of bounded that does not wait for the semaphore
BoundedWithoutSemaphore(b, t) == Enter(b, t)

\* bounded(code) up to its first suspension: async with sem either takes the
\* semaphore or queues the task behind the earlier waiters
bounded(b, t) ==
    IF b.sem > 0 /\ b.waiters = <<>>
    THEN Enter(b, t)
    ELSE [b EXCEPT !.pc[t] = "waiting", !.waiters = Append(@, t), !.blocked = TRUE]

\* process_code resumed at the await it is at: the next await, or the return.
\* found: the response named an entity; title, definition: what the responses
\* gave so far ("" when nothing); generic: to_generic_entity_url gave a URL
process_code(b, t, found, title, definition, generic) ==
    LET complete == title # "" /\ definition # ""
    IN  CASE b.pc[t] = "codeinfo" ->
                 [b EXCEPT !.pc[t] = IF found THEN "entity" ELSE "search"]
          [] b.pc[t] = "search" ->
                 IF found THEN [b EXCEPT !.pc[t] = "entity"]
                 ELSE Return(b, t, "", "")
          [] b.pc[t] = "entity" ->
                 IF complete THEN Return(b, t, title, definition)
                 ELSE [b EXCEPT !.pc[t] = IF generic THEN "generic" ELSE "flat"]
          [] b.pc[t] = "generic" ->
                 IF complete THEN Return(b, t, title, definition)
                 ELSE [b EXCEPT !.pc[t] = "flat"]
          [] b.pc[t] = "flat" -> Return(b, t, title, definition)

InitMain ==
    /\ CoreIdle
    /\ simple = NotRunning
    /\ icd = NotRunning
    /\ \E codes \in CodeLists : bulk = NewMain(codes)

\* a task created by asyncio.create_task runs for the first time
StartTask(t) ==
    /\ bulk.pc[t] = "created"
    /\ bulk' = bounded(bulk, t)
    /\ UNCHANGED <<core, simple, icd>>

\* the first waiter is woken by a release and takes the semaphore
ResumeWaiter(t) ==
    /\ bulk.pc[t] = "waiting"
    /\ bulk.waiters # <<>> /\ Head(bulk.waiters) = t
    /\ bulk.sem > 0
    /\ bulk' = Enter([bulk EXCEPT !.waiters = Tail(@)], t)
    /\ UNCHANGED <<core, simple, icd>>

\* a fetch_json (or search_entity_id) awaited by process_code completes
ProcessCode(t) ==
    /\ bulk.pc[t] \in ProcessCodeAwaits
    /\ \E found \in BOOLEAN, generic \in BOOLEAN,
          text \in {<<"", "">>, <<"title", "definition">>} :
          bulk' = process_code(bulk, t, found, text[1], text[2], generic)
    /\ UNCHANGED <<core, simple, icd>>

\* for coro in asyncio.as_completed(tasks): results.append(await coro); the
\* function returns after the last one
Collect ==
    /\ bulk.collected < Len(bulk.completed)
    /\ bulk' = [bulk EXCEPT !.collected = @ + 1,
                            !.returned = (bulk.collected + 1 = Len(bulk.codes))]
    /\ UNCHANGED <<core, simple, icd>>

NextMain ==
    \/ \E t \in 1..MaxCodes : StartTask(t)
    \/ \E t \in 1..MaxCodes : ResumeWaiter(t)
    \/ \E t \in 1..MaxCodes : ProcessCode(t)
    \/ Collect

\* every request completes and the event loop runs every coroutine that is
\* ready: each task and the collecting loop take their steps
SpecMain ==
    /\ InitMain
    /\ [][NextMain]_vars
    /\ \A t \in 1..MaxCodes :
          WF_vars(StartTask(t) \/ ResumeWaiter(t) \/ ProcessCode(t))
    /\ WF_vars(Collect)

MaxEntities == 3

\* the entity URLs; 0 stands for a child that has neither "@id" nor "id"
EntityUrls == 1..MaxEntities
root_url == 1

NextUrl(url) == (url % MaxEntities) + 1

\* data.get("child") of an entity: no child; one child; a child and the root
\* (a cycle); two children (shared with the child's own); a child without id
\* and the entity itself
ChildLists(url) ==
    { <<>>, <<NextUrl(url)>>, <<NextUrl(url), root_url>>,
      <<NextUrl(url), NextUrl(NextUrl(url))>>, <<0, url>> }

ChildGraphs ==
    {g \in [EntityUrls -> UNION {ChildLists(url) : url \in EntityUrls}] :
        \A url \in EntityUrls : g[url] \in ChildLists(url)}

\* child: the children of each entity; named: the entities whose code, title or
\* definition is not empty
NewTraversal(child, named) ==
    [on |-> TRUE, fn |-> "collect_entities", child |-> child, named |-> named,
     pc |-> "start", stack |-> <<>>, visited |-> {}, results |-> <<>>,
     requests |-> [url \in EntityUrls |-> 0]]

\* a variant of visit without the check against visited
VisitWithoutVisited(st, url) ==
    [st EXCEPT !.visited = @ \cup {url},
               !.requests[url] = @ + 1,
               !.results = IF url \in st.named THEN Append(@, url) ELSE @,
               !.stack = Append(@, [url |-> url, i |-> 1])]

\* visit(url) up to its loop over the children: lines 101-123
visit(st, url) ==
    IF url \in st.visited THEN st
    ELSE [st EXCEPT !.visited = @ \cup {url},
                    !.requests[url] = @ + 1,
                    !.results = IF url \in st.named THEN Append(@, url) ELSE @,
                    !.stack = Append(@, [url |-> url, i |-> 1])]

Top(st) == st.stack[Len(st.stack)]

InitCollect ==
    /\ CoreIdle
    /\ simple = NotRunning
    /\ bulk = NotRunning
    /\ \E child \in ChildGraphs, named \in SUBSET EntityUrls :
          icd = NewTraversal(child, named)

\* visit(root_url)
CollectEntities ==
    /\ icd.pc = "start"
    /\ icd' = visit([icd EXCEPT !.pc = "visiting"], root_url)
    /\ UNCHANGED <<core, simple, bulk>>

\* for child in children: child_url = ...; if child_url: visit(child_url)
VisitChild ==
    /\ icd.pc = "visiting"
    /\ Top(icd).i <= Len(icd.child[Top(icd).url])
    /\ LET child_url == icd.child[Top(icd).url][Top(icd).i]
           st1 == [icd EXCEPT !.stack[Len(icd.stack)].i = @ + 1]
       IN  icd' = IF child_url = 0 THEN st1 ELSE visit(st1, child_url)
    /\ UNCHANGED <<core, simple, bulk>>

\* the loop over the children is over: visit returns; after the outermost
\* visit, collect_entities returns results
VisitReturn ==
    /\ icd.pc = "visiting"
    /\ Top(icd).i > Len(icd.child[Top(icd).url])
    /\ icd' = [icd EXCEPT !.stack = SubSeq(@, 1, Len(@) - 1),
                          !.pc = IF Len(icd.stack) = 1 THEN "returned" ELSE @]
    /\ UNCHANGED <<core, simple, bulk>>

NextCollect == CollectEntities \/ VisitChild \/ VisitReturn

\* every request completes: the traversal goes on
SpecCollect == InitCollect /\ [][NextCollect]_vars /\ WF_vars(NextCollect)

\* depth-first pre-order of the entities reachable from url that are not in
\* seen, children in the order of their lists
RECURSIVE PreOrder(_, _, _)
RECURSIVE PreOrderList(_, _, _)
PreOrder(child, url, seen) ==
    IF url = 0 \/ url \in seen THEN <<>>
    ELSE <<url>> \o PreOrderList(child, child[url], seen \cup {url})

PreOrderList(child, urls, seen) ==
    IF urls = <<>> THEN <<>>
    ELSE LET first == PreOrder(child, Head(urls), seen)
         IN  first \o PreOrderList(child, Tail(urls),
                                   seen \cup {first[i] : i \in 1..Len(first)})

====
